---------------------------- MODULE Spec2Model ----------------------------
(***************************************************************************)
(* District keyword pipeline of GwangjuARDonMap:                           *)
(*   nouns_only, log_odds_dirichlet, build_district_keywords               *)
(*   (src/architect_buildings.py) and their duplicates nouns_only,         *)
(*   log_odds_dirichlet, run_pipeline (src/main2.py).                      *)
(*                                                                         *)
(* Conventions of the model                                                *)
(*  - A Python str is a sequence of code points.  SANY accepts only ASCII  *)
(*    in string literals, so every Hangul syllable is written as its       *)
(*    romanisation: "광주" is <<"gwang","ju">>, and Len is the code-point  *)
(*    length len() of the Python str.                                      *)
(*  - A Counter is a function from the token universe to Nat; its keys     *)
(*    are the tokens with a positive count (Counter(list) and Counter +=   *)
(*    never keep a non-positive count).                                    *)
(*  - A Python float is an exact signed rational over unbounded naturals   *)
(*    (rounding is not modelled).  TLC integers are 32 bit, 1e-12 is not,  *)
(*    so naturals are little-endian limb sequences in base 10^4.           *)
(*  - math.log is strictly increasing, so the score                        *)
(*    log(x) - log(y) is carried as the rational x / y = exp(score):       *)
(*    score_a >= score_b iff x_a/y_a >= x_b/y_b, score > 0 iff x/y > 1.    *)
(*    math.log raises ValueError exactly when its argument is <= 0.        *)
(***************************************************************************)
EXTENDS Integers, Sequences, FiniteSets, TLC

(***************************************************************************)
(* Unbounded naturals: little-endian limbs in base BASE, no leading zero   *)
(* limb; zero is << >>.                                                    *)
(***************************************************************************)
BASE == 100 * 100

RECURSIVE BigOf(_)
BigOf(n) == IF n = 0 THEN << >> ELSE <<n % BASE>> \o BigOf(n \div BASE)

RECURSIVE BigAddC(_, _, _)
BigAddC(a, b, c) ==
    IF a = << >> /\ b = << >>
    THEN (IF c = 0 THEN << >> ELSE <<c>>)
    ELSE LET x == IF a = << >> THEN 0 ELSE Head(a)
             y == IF b = << >> THEN 0 ELSE Head(b)
             s == x + y + c
             ta == IF a = << >> THEN << >> ELSE Tail(a)
             tb == IF b = << >> THEN << >> ELSE Tail(b)
         IN  <<s % BASE>> \o BigAddC(ta, tb, s \div BASE)

BigAdd(a, b) == BigAddC(a, b, 0)

RECURSIVE BigMulSmallC(_, _, _)
BigMulSmallC(a, k, c) ==
    IF a = << >>
    THEN (IF c = 0 THEN << >> ELSE <<c>>)
    ELSE LET s == Head(a) * k + c
         IN  <<s % BASE>> \o BigMulSmallC(Tail(a), k, s \div BASE)

BigMulSmall(a, k) == IF k = 0 THEN << >> ELSE BigMulSmallC(a, k, 0)

RECURSIVE BigColumn(_, _, _, _, _)
\* sum of a[i] * b[k - i + 1] for i in lo..hi: column k of the long product
BigColumn(a, b, k, lo, hi) ==
    IF lo > hi THEN 0
    ELSE a[lo] * b[k - lo + 1] + BigColumn(a, b, k, lo + 1, hi)

RECURSIVE BigCarry(_, _, _)
\* carries the column sums cols[i..] into limbs
BigCarry(cols, i, c) ==
    IF i > Len(cols)
    THEN (IF c = 0 THEN << >> ELSE <<c % BASE>> \o BigCarry(cols, i, c \div BASE))
    ELSE LET s == cols[i] + c
         IN  <<s % BASE>> \o BigCarry(cols, i + 1, s \div BASE)

\* schoolbook product (column sums stay below 2^31 up to 21 limbs)
BigMul(a, b) ==
    IF a = << >> \/ b = << >> THEN << >>
    ELSE IF a = <<1>> THEN b
    ELSE IF b = <<1>> THEN a
    ELSE LET la == Len(a)
             lb == Len(b)
             cols == [k \in 1..(la + lb - 1) |->
                        BigColumn(a, b, k,
                                  IF k > lb THEN k - lb + 1 ELSE 1,
                                  IF k < la THEN k ELSE la)]
         IN  BigCarry(cols, 1, 0)

RECURSIVE BigCmpFrom(_, _, _)
\* compares limbs i, i-1, .. 1 of two naturals of the same length
BigCmpFrom(a, b, i) ==
    IF i = 0 THEN 0
    ELSE IF a[i] < b[i] THEN -1
    ELSE IF a[i] > b[i] THEN 1
    ELSE BigCmpFrom(a, b, i - 1)

\* -1, 0, 1 as a < b, a = b, a > b
BigCmp(a, b) ==
    IF Len(a) < Len(b) THEN -1
    ELSE IF Len(a) > Len(b) THEN 1
    ELSE BigCmpFrom(a, b, Len(a))

RECURSIVE BigTrim(_)
BigTrim(a) ==
    IF a = << >> THEN << >>
    ELSE IF a[Len(a)] = 0 THEN BigTrim(SubSeq(a, 1, Len(a) - 1))
    ELSE a

RECURSIVE BigSubB(_, _, _)
\* a - b - borrow, for a >= b + borrow; limbs not yet trimmed
BigSubB(a, b, br) ==
    IF a = << >> THEN << >>
    ELSE LET y == IF b = << >> THEN 0 ELSE Head(b)
             tb == IF b = << >> THEN << >> ELSE Tail(b)
             s == Head(a) - y - br
         IN  IF s < 0
             THEN <<s + BASE>> \o BigSubB(Tail(a), tb, 1)
             ELSE <<s>> \o BigSubB(Tail(a), tb, 0)

BigSub(a, b) == BigTrim(BigSubB(a, b, 0))

RECURSIVE BigPow10(_)
BigPow10(k) == IF k = 0 THEN <<1>> ELSE BigMulSmall(BigPow10(k - 1), 10)

(***************************************************************************)
(* Signed rationals [neg, n, d] with d > 0: the values of Python floats.   *)
(***************************************************************************)
Rat(neg, n, d) == [neg |-> neg /\ n # << >>, n |-> n, d |-> d]

RatOfInt(k) == Rat(k < 0, BigOf(IF k < 0 THEN -k ELSE k), <<1>>)

RatFrac(num, den) == Rat(FALSE, BigOf(num), BigOf(den))

RatIsZero(a) == a.n = << >>

RatSign(a) == IF a.n = << >> THEN 0 ELSE IF a.neg THEN -1 ELSE 1

RatNeg(a) == Rat(~a.neg, a.n, a.d)

RatAdd(a, b) ==
    LET x == BigMul(a.n, b.d)
        y == BigMul(b.n, a.d)
        d == BigMul(a.d, b.d)
        sum(u, v, w) ==
            IF a.neg = b.neg THEN Rat(a.neg, BigAdd(u, v), w)
            ELSE IF BigCmp(u, v) >= 0 THEN Rat(a.neg, BigSub(u, v), w)
            ELSE Rat(b.neg, BigSub(v, u), w)
    IN  \* equal denominators are kept, not squared
        IF a.d = b.d THEN sum(a.n, b.n, a.d) ELSE sum(x, y, d)

RatSub(a, b) == RatAdd(a, RatNeg(b))

RatMul(a, b) == Rat(a.neg # b.neg, BigMul(a.n, b.n), BigMul(a.d, b.d))

\* a / b for b # 0 (the callers raise ZeroDivisionError before dividing by 0)
RatDiv(a, b) ==
    IF a.d = b.d THEN Rat(a.neg # b.neg, a.n, b.n)
    ELSE Rat(a.neg # b.neg, BigMul(a.n, b.d), BigMul(a.d, b.n))

\* -1, 0, 1 as a < b, a = b, a > b
RatCmp(a, b) ==
    IF RatSign(a) # RatSign(b) THEN (IF RatSign(a) < RatSign(b) THEN -1 ELSE 1)
    ELSE IF RatSign(a) = 0 THEN 0
    ELSE RatSign(a) * BigCmp(BigMul(a.n, b.d), BigMul(b.n, a.d))

(***************************************************************************)
(* Counters (collections.Counter built from token lists).                  *)
(***************************************************************************)
\* 한옥, 정원, 아파트: the token universe of the ranker's inputs
Tokens == { <<"han", "ok">>, <<"jeong", "won">>, <<"a", "pa", "teu">> }

EmptyCounter(U) == [w \in U |-> 0]

Keys(c) == {w \in DOMAIN c : c[w] > 0}

RECURSIVE SumOver(_, _)
SumOver(c, S) ==
    IF S = {} THEN 0
    ELSE LET w == CHOOSE x \in S : TRUE IN c[w] + SumOver(c, S \ {w})

\* sum(c.values())
SumValues(c) == SumOver(c, DOMAIN c)

\* every order in which `for w in vocab` can visit the set
Orders(S) ==
    {o \in [1..Cardinality(S) -> S] : \A i, j \in DOMAIN o : i # j => o[i] # o[j]}

(***************************************************************************)
(* log_odds_dirichlet                                                      *)
(***************************************************************************)
\* alpha=0.01, the default and what every caller passes
ALPHA == RatFrac(1, 100)

\* min_count=2, the default and what every caller passes
MIN_COUNT == 2

\* the literal 1e-12
EPS == Rat(FALSE, <<1>>, BigPow10(12))

RatOne == RatOfInt(1)

\* the filter testing the count in rest instead of the count in target
SkipsTokenByRest(c1, c0, min_count) == c0 < min_count

\* `if c1 < min_count: continue`
SkipsToken(c1, c0, min_count) == c1 < min_count

\* the two logarithms subtracted the wrong way round
LogDiffSwapped(x1, x0) == RatDiv(x0, x1)

\* log(x1) - log(x0) carried as exp of it
LogDiff(x1, x0) == RatDiv(x1, x0)

\* One pass of the loop body for a token that is not skipped:
\* [err |-> "none" / the exception raised, score |-> exp(score)].
TokenScore(c1, c0, n1, n0, V, alpha) ==
    LET d1 == RatAdd(RatOfInt(n1), RatMul(alpha, RatOfInt(V)))
        d0 == RatAdd(RatOfInt(n0), RatMul(alpha, RatOfInt(V)))
        p1 == RatDiv(RatAdd(RatOfInt(c1), alpha), d1)
        p0 == RatDiv(RatAdd(RatOfInt(c0), alpha), d0)
        q1 == RatAdd(RatSub(RatOne, p1), EPS)
        q0 == RatAdd(RatSub(RatOne, p0), EPS)
        x1 == RatDiv(p1, q1)
        x0 == RatDiv(p0, q0)
        fail(e) == [err |-> e, score |-> RatOne]
    IN  IF RatIsZero(d1) \/ RatIsZero(d0) THEN fail("ZeroDivisionError")
        ELSE IF RatIsZero(q1) THEN fail("ZeroDivisionError")
        ELSE IF RatSign(x1) <= 0 THEN fail("ValueError")
        ELSE IF RatIsZero(q0) THEN fail("ZeroDivisionError")
        ELSE IF RatSign(x0) <= 0 THEN fail("ValueError")
        ELSE [err |-> "none", score |-> LogDiff(x1, x0)]

\* the sort without reverse=True
ScoreBeforeAscending(a, b) == RatCmp(a.score, b.score) < 0

\* key=lambda x: x[1], reverse=True: a before b when a's score is larger
ScoreBefore(a, b) == RatCmp(a.score, b.score) > 0

RECURSIVE InsertStable(_, _)
\* e goes behind every entry that is not strictly after it (stable)
InsertStable(s, e) ==
    IF s = << >> THEN <<e>>
    ELSE IF ScoreBefore(e, Head(s)) THEN <<e>> \o s
    ELSE <<Head(s)>> \o InsertStable(Tail(s), e)

\* the list left in the order the loop appended it
SortByScoreSkipped(s) == s

RECURSIVE SortByScore(_)
\* out.sort(key=lambda x: x[1], reverse=True)
SortByScore(s) ==
    IF s = << >> THEN << >>
    ELSE InsertStable(SortByScore(SubSeq(s, 1, Len(s) - 1)), s[Len(s)])

\* s[:n] for n >= 0
Take(s, n) == SubSeq(s, 1, IF n < Len(s) THEN n ELSE Len(s))

RECURSIVE ScoreLoop(_, _, _)
\* the loop `for w in vocab` in visiting order from position i; body holds,
\* for every token that is not skipped, what the loop body computes for it
ScoreLoop(order, i, body) ==
    IF i > Len(order) THEN [err |-> "none", out |-> << >>]
    ELSE LET w == order[i]
             more == ScoreLoop(order, i + 1, body)
         IN  IF \A e \in body : e.kw # w THEN more
             ELSE LET e == CHOOSE x \in body : x.kw = w
                  IN  IF e.r.err # "none" THEN [err |-> e.r.err, out |-> << >>]
                      ELSE IF more.err # "none" THEN more
                      ELSE [err |-> "none",
                            out |-> <<[kw |-> w, score |-> e.r.score,
                                       c1 |-> e.c1, c0 |-> e.c0]>> \o more.out]

\* loop, sort and slice for one visiting order of vocab
RankInOrder(order, body, topn) ==
    LET looped == ScoreLoop(order, 1, body)
    IN  IF looped.err # "none" THEN looped
        ELSE [err |-> "none", out |-> Take(SortByScore(looped.out), topn)]

\* log_odds_dirichlet(one, rest, alpha, topn, min_count): the set of its
\* outcomes [err, out], one for each order in which the set vocab is visited
log_odds_dirichlet(one, rest, alpha, topn, min_count) ==
    LET vocab == Keys(one) \cup Keys(rest)
        n1 == SumValues(one)
        n0 == SumValues(rest)
        V == IF Cardinality(vocab) # 0 THEN Cardinality(vocab) ELSE 1
        body == {[kw |-> w, c1 |-> one[w], c0 |-> rest[w],
                  r |-> TokenScore(one[w], rest[w], n1, n0, V, alpha)] :
                 w \in {x \in vocab : ~SkipsToken(one[x], rest[x], min_count)}}
    IN  {RankInOrder(order, body, topn) : order \in Orders(vocab)}

(***************************************************************************)
(* nouns_only                                                              *)
(***************************************************************************)
\* STOPWORDS of src/main2.py
STOPWORDS_main2 == {
    <<"gwang", "ju">>, <<"gwang", "ju", "gwang", "yeok", "si">>,
    <<"dae", "han", "min", "guk">>, <<"guk", "ga">>, <<"deung", "rok">>,
    <<"deung", "rok", "mun", "hwa", "jae">>,
    <<"guk", "ga", "deung", "rok", "mun", "hwa", "jae">>,
    <<"yu", "hyeong", "mun", "hwa", "jae">>, <<"mun", "hwa", "jae", "ja", "ryo">>,
    <<"gi", "nyeom", "mul">>, <<"myeong", "seung">>, <<"sa", "jeok">>,
    <<"ji", "jeong">>, <<"seung", "gyeok">>,
    <<"jo", "seon", "si", "dae">>, <<"il", "je", "gang", "jeom", "gi">>,
    <<"geun", "dae">>, <<"hyeon", "dae">>, <<"gae", "gwan">>, <<"jun", "gong">>,
    <<"wan", "gong">>, <<"jeung", "chuk">>, <<"jung", "geon">>,
    <<"bok", "won">>, <<"bo", "su">>, <<"i", "jeon">>, <<"sin", "chuk">>,
    <<"ri", "mo", "del", "ring">>,
    <<"geon", "mul">>, <<"geon", "chuk">>, <<"geon", "chuk", "mul">>,
    <<"si", "seol">>, <<"gong", "gan">>, <<"jang", "so">>, <<"ji", "yeok">>,
    <<"hyeon", "jae">>, <<"dang", "si">>,
    <<"gyu", "mo">>, <<"gu", "seong">>, <<"ga", "chi">>, <<"teuk", "jing">>,
    <<"hwal", "yong">>, <<"sa", "yong">>, <<"bu", "mun">> }

\* STOPWORDS of src/architect_buildings.py: the same words, the generic
\* predicate words and the five district names
STOPWORDS ==
    STOPWORDS_main2 \cup {
    <<"it", "da">>, <<"i", "da">>, <<"han", "da">>, <<"it", "neun">>,
    <<"dae", "han">>, <<"wi", "hae">>, <<"gwan", "ryeon">>,
    <<"dong", "gu">>, <<"seo", "gu">>, <<"nam", "gu">>, <<"buk", "gu">>,
    <<"gwang", "san", "gu">> }

\* a filter that keeps one-character nouns
KeepsTokenAnyLength(tok, stopwords) ==
    tok.tag \in {"NNG", "NNP"} /\ tok.form \notin stopwords

\* `if pos in ("NNG", "NNP"): if len(token) >= 2 and token not in STOPWORDS`
KeepsToken(tok, stopwords) ==
    /\ tok.tag \in {"NNG", "NNP"}
    /\ Len(tok.form) >= 2
    /\ tok.form \notin stopwords

RECURSIVE FilterNouns(_, _)
\* the loop over analyzed[0][0] appending the kept surface forms
FilterNouns(toks, stopwords) ==
    IF toks = << >> THEN << >>
    ELSE (IF KeepsToken(Head(toks), stopwords) THEN <<Head(toks).form>> ELSE << >>)
         \o FilterNouns(Tail(toks), stopwords)

\* A description as nouns_only meets it: text_empty says the str is "",
\* analyzed is what kiwi.analyze(text) returns for it, a list of analyses of
\* which only the first is read (each a token list; the score is not read).
\* [err, toks]: the exception raised or "none", and the list returned.

\* nouns_only of src/architect_buildings.py
nouns_only(desc) ==
    IF desc.text_empty THEN [err |-> "none", toks |-> << >>]
    ELSE IF desc.analyzed = << >> THEN [err |-> "none", toks |-> << >>]
    ELSE [err |-> "none", toks |-> FilterNouns(desc.analyzed[1], STOPWORDS)]

\* nouns_only of src/main2.py: kiwi.analyze(text)[0][0] without the guard
nouns_only_main2(desc) ==
    IF desc.text_empty THEN [err |-> "none", toks |-> << >>]
    ELSE IF desc.analyzed = << >> THEN [err |-> "IndexError", toks |-> << >>]
    ELSE [err |-> "none", toks |-> FilterNouns(desc.analyzed[1], STOPWORDS_main2)]

(***************************************************************************)
(* State                                                                   *)
(***************************************************************************)
VARIABLES
    one, rest, alpha, topn, min_count,  \* arguments of a log_odds_dirichlet call
    rpc,                                \* "call", "returned", "raised", "returned twice", ...
    ranked,                             \* the list the call returned
    ranked2,                            \* the list a second run of the call returned
    raised,                             \* the exception the call raised, or "none"
    nvariant,                           \* the module whose nouns_only is called
    ndesc,                              \* argument of a nouns_only call
    npc,                                \* "call", "returned" or "raised"
    ntoks,                              \* the list the call returned
    nraised,                            \* the exception the call raised, or "none"
    entry,                              \* "build_district_keywords" or "run_pipeline"
    records,                            \* the rows of df: [district, desc]
    ptopn,                              \* the entry point's topn argument
    pc,                                 \* "start", "counted", "ranked", "done", "raised"
    counters,                           \* counters[i]: the Counter of DISTRICTS[i]
    rests,                              \* rests[i]: the rest handed to the ranker for DISTRICTS[i]
    payload,                            \* result of build_district_keywords, by DISTRICTS_WITH_ETC index
    etc_counter,                        \* etc_counter of build_district_keywords
    pranked,                            \* ranked of build_district_keywords, per district
    rows,                               \* rows of run_pipeline
    out,                                \* the frame run_pipeline sorts, saves and returns
    praised,                            \* the exception the entry point raised, or "none"
    tcaller,                            \* the normalizer or module-level loop that runs
    tinput,                             \* the value handed to it
    tpc,                                \* "start", "once", "twice", "keywords", "raised"
    tout1,                              \* the str the normalizer returned
    tout2,                              \* the str it returned for tout1
    tcounter,                           \* items of the module-level Counter of a district
    tkeywords,                          \* district_keywords[district] at module level
    traised,                            \* the exception the normalizer raised, or "none"
    dmodule,                            \* the module whose extract_district is applied
    daddr,                              \* the ADDR value of the record
    dpc,                                \* "start" or "assigned"
    dlabel,                             \* the record's district label
    gentry,                             \* the geocoding function that runs
    gbehaviour,                         \* what the successive Nominatim requests do
    gname,                              \* facility_name of geocode_with_kakao
    gresponse,                          \* what the Kakao request does
    gpc,                                \* "call"/"start", "geocoding", "returned", "raised"
    gvalue,                             \* the latitude and longitude a wrapper returned
    gstatus,                            \* 'status' of geocode_with_kakao
    graised,                            \* the exception raised to the caller, or "none"
    grequests,                          \* requests sent to the service
    gcache,                             \* the file at output_csv
    ginput,                             \* the ADDR column of input_csv
    gdf,                                \* df of load_or_geocode
    gidx,                               \* the row progress_apply is at
    gcalls,                             \* gcalls[k]: geocode_address calls for input row k
    gwritten,                           \* df.to_csv(output_csv) has run
    MODE,                               \* MODE of the legend script: "district" or "purpose"
    ACTIVE_PURPOSE,                     \* ACTIVE_PURPOSE of the legend script
    onMap,                              \* the feature groups the Leaflet map has
    chips,                              \* the purposes whose chip has the class 'active'
    kwPanel,                            \* style.display of #kw-panel and the district it shows
    clicks,                             \* the last two togglePurpose clicks
    sheetTabs,                          \* style.display of #sheet-tabs
    districtSheet,                      \* style.display of #district-sheet
    categorySheet,                      \* style.display of #category-sheet
    tabDistrict,                        \* style.background of #tab-district
    tabCategory,                        \* style.background of #tab-category
    sclicks,                            \* the clicks on the tourist legend so far
    kkey,                               \* KAKAO_API_KEY
    kfile,                              \* what is at INPUT_FILE
    kpc,                                \* where main() is
    kdf,                                \* df of main()
    kidx,                               \* the row the running step is at
    kstep1,                             \* df as step 1 returned it
    klog,                               \* the requests sent and the delays slept, in order
    kretry,                             \* retry_count as step 2 logged it
    kfiles,                             \* the output files written
    kevents                             \* the stages main() went through, in order

rankVars == <<one, rest, alpha, topn, min_count, rpc, ranked, ranked2, raised>>

nounVars == <<nvariant, ndesc, npc, ntoks, nraised>>

pipeVars == <<entry, records, ptopn, pc, counters, rests, payload, etc_counter, pranked,
              rows, out, praised>>

textVars == <<tcaller, tinput, tpc, tout1, tout2, tcounter, tkeywords, traised>>

distVars == <<dmodule, daddr, dpc, dlabel>>

geoVars == <<gentry, gbehaviour, gname, gresponse, gpc, gvalue, gstatus, graised,
             grequests, gcache, ginput, gdf, gidx, gcalls, gwritten>>

legendVars == <<MODE, ACTIVE_PURPOSE, onMap, chips, kwPanel, clicks>>

sheetVars == <<sheetTabs, districtSheet, categorySheet, tabDistrict, tabCategory, sclicks>>

kakaoVars == <<kkey, kfile, kpc, kdf, kidx, kstep1, klog, kretry, kfiles, kevents>>

scriptVars == <<legendVars, sheetVars, kakaoVars>>

vars == <<rankVars, nounVars, pipeVars, textVars, distVars, geoVars, scriptVars>>

\* the legend script of the architecture map is not loaded
LegendIdle ==
    /\ MODE = "idle" /\ ACTIVE_PURPOSE = "idle" /\ onMap = {} /\ chips = {}
    /\ kwPanel = [display |-> "idle", dist |-> << >>] /\ clicks = << >>

\* the legend of the tourist map is not loaded
SheetsIdle ==
    /\ sheetTabs = "idle" /\ districtSheet = "idle" /\ categorySheet = "idle"
    /\ tabDistrict = "idle" /\ tabCategory = "idle" /\ sclicks = << >>

\* the Kakao script does not run
KakaoIdle ==
    /\ kkey = "idle" /\ kfile = "idle" /\ kpc = "idle" /\ kdf = << >> /\ kidx = 0
    /\ kstep1 = << >> /\ klog = << >> /\ kretry = 0 /\ kfiles = {} /\ kevents = << >>

ScriptsIdle == LegendIdle /\ SheetsIdle /\ KakaoIdle

\* the ranker is not being called
RankIdle ==
    /\ one = EmptyCounter(Tokens) /\ rest = EmptyCounter(Tokens)
    /\ alpha = RatOfInt(0) /\ topn = 0 /\ min_count = 0
    /\ rpc = "idle" /\ ranked = << >> /\ ranked2 = << >> /\ raised = "none"

\* nouns_only is not being called
NounsIdle ==
    /\ nvariant = "none" /\ ndesc = [text_empty |-> TRUE, analyzed |-> << >>]
    /\ npc = "idle" /\ ntoks = << >> /\ nraised = "none"

(***************************************************************************)
(* nouns_only as a pure function of the analyzer's output.                 *)
(***************************************************************************)
MaxAnalysisLen == 2

\* what the analyzer may emit: 한옥/NNG, 정원/NNP, 아파트/NNG, 집/NNG (one
\* character), 광주/NNP (stopword of both modules), 대한/NNG (stopword of
\* architect_buildings only), 짓다/VV (not a noun)
AnalyzerTokens == {
    [form |-> <<"han", "ok">>, tag |-> "NNG"],
    [form |-> <<"jeong", "won">>, tag |-> "NNP"],
    [form |-> <<"a", "pa", "teu">>, tag |-> "NNG"],
    [form |-> <<"jip">>, tag |-> "NNG"],
    [form |-> <<"gwang", "ju">>, tag |-> "NNP"],
    [form |-> <<"dae", "han">>, tag |-> "NNG"],
    [form |-> <<"jit", "da">>, tag |-> "VV"] }

SeqsUpTo(S, n) == UNION {[1..k -> S] : k \in 0..n}

\* "" ; a text the analyzer returns no analysis for ; a text with one analysis
Descriptions(maxlen) ==
    {[text_empty |-> TRUE, analyzed |-> << >>],
     [text_empty |-> FALSE, analyzed |-> << >>]}
    \cup {[text_empty |-> FALSE, analyzed |-> <<toks>>] :
          toks \in SeqsUpTo(AnalyzerTokens, maxlen)}

(***************************************************************************)
(* build_district_keywords (architect_buildings) and run_pipeline (main2)  *)
(***************************************************************************)
\* DISTRICTS = ["동구", "서구", "남구", "북구", "광산구"]
DISTRICTS == << <<"dong", "gu">>, <<"seo", "gu">>, <<"nam", "gu">>,
                <<"buk", "gu">>, <<"gwang", "san", "gu">> >>

\* "기타", the label extract_district of architect_buildings gives an
\* address that names no district
ETC == <<"gi", "ta">>

\* DISTRICTS_WITH_ETC = DISTRICTS + ["기타"]
DISTRICTS_WITH_ETC == DISTRICTS \o <<ETC>>

\* None, the label extract_district of main2 gives such an address
NONE == <<"None">>

DistrictSet == {DISTRICTS[i] : i \in DOMAIN DISTRICTS}

\* every surface form a token list can hold
Forms == {t.form : t \in AnalyzerTokens}

RECURSIVE Occurrences(_, _)
Occurrences(toks, w) ==
    IF toks = << >> THEN 0
    ELSE (IF Head(toks) = w THEN 1 ELSE 0) + Occurrences(Tail(toks), w)

\* a set built where the Counter was meant
CounterOfSet(toks) ==
    [w \in Forms |-> IF \E k \in DOMAIN toks : toks[k] = w THEN 1 ELSE 0]

\* Counter(toks)
Counter(toks) == [w \in Forms |-> Occurrences(toks, w)]

\* a += b on Counters: counts added, only positive counts kept
CounterAdd(a, b) ==
    [w \in DOMAIN a |-> IF a[w] + b[w] > 0 THEN a[w] + b[w] ELSE 0]

\* nouns_only of the module the entry point lives in
NounsOf(entry_point, desc) ==
    IF entry_point = "run_pipeline" THEN nouns_only_main2(desc) ELSE nouns_only(desc)

RECURSIVE CollectTokens(_, _, _)
\* `for s in sub["DC_CN"].tolist(): toks.extend(nouns_only(s))` over the
\* records labelled dist, in record order: [err, toks]
CollectTokens(entry_point, recs, dist) ==
    IF recs = << >> THEN [err |-> "none", toks |-> << >>]
    ELSE IF Head(recs).district # dist THEN CollectTokens(entry_point, Tail(recs), dist)
    ELSE LET r == NounsOf(entry_point, Head(recs).desc)
             more == CollectTokens(entry_point, Tail(recs), dist)
         IN  IF r.err # "none" THEN [err |-> r.err, toks |-> << >>]
             ELSE IF more.err # "none" THEN more
             ELSE [err |-> "none", toks |-> r.toks \o more.toks]

\* the first loop over DISTRICTS: [err, counters], counters[i] for DISTRICTS[i]
CountDistricts(entry_point, recs) ==
    LET col == [i \in DOMAIN DISTRICTS |-> CollectTokens(entry_point, recs, DISTRICTS[i])]
    IN  IF \E i \in DOMAIN DISTRICTS : col[i].err # "none"
        THEN [err |-> col[CHOOSE i \in DOMAIN DISTRICTS :
                              /\ col[i].err # "none"
                              /\ \A j \in 1..(i - 1) : col[j].err = "none"].err,
              counters |-> [i \in DOMAIN DISTRICTS |-> EmptyCounter(Forms)]]
        ELSE [err |-> "none",
              counters |-> [i \in DOMAIN DISTRICTS |-> Counter(col[i].toks)]]

\* the district's own counter pooled too
PoolsOtherAlways(other, dist) == TRUE

\* `if other != dist`
PoolsOther(other, dist) == other # dist

RECURSIVE RestFrom(_, _, _)
\* rest = Counter(); for other in DISTRICTS: if other != dist: rest += counters[other]
\* (the loop from position j on)
RestFrom(cnts, dist, j) ==
    IF j > Len(DISTRICTS) THEN EmptyCounter(Forms)
    ELSE IF PoolsOther(DISTRICTS[j], dist)
         THEN CounterAdd(cnts[j], RestFrom(cnts, dist, j + 1))
         ELSE RestFrom(cnts, dist, j + 1)

RestOf(cnts, i) == RestFrom(cnts, DISTRICTS[i], 1)

\* 0.0, the score of every entry of the 기타 bucket (scores are carried as
\* exp(score))
ZERO_SCORE == RatOne

\* the payload with the count in the other districts as cnt
AsPayloadRestCount(rk) ==
    [k \in DOMAIN rk |-> [kw |-> rk[k].kw, cnt |-> rk[k].c0, score |-> rk[k].score]]

\* {"kw": kw, "cnt": int(c1), "score": float(score)} for each ranked tuple
AsPayload(rk) == [k \in DOMAIN rk |-> [kw |-> rk[k].kw, cnt |-> rk[k].c1, score |-> rk[k].score]]

RECURSIVE DistinctInOrder(_)
\* the keys of Counter(toks) in insertion (first occurrence) order
DistinctInOrder(toks) ==
    IF toks = << >> THEN << >>
    ELSE LET init == DistinctInOrder(SubSeq(toks, 1, Len(toks) - 1))
             w == toks[Len(toks)]
         IN  IF \E k \in DOMAIN init : init[k] = w THEN init ELSE init \o <<w>>

\* rarest first
CountBeforeAscending(a, b) == a.cnt < b.cnt

\* most_common orders by count, largest first
CountBefore(a, b) == a.cnt > b.cnt

RECURSIVE InsertByCount(_, _)
InsertByCount(s, e) ==
    IF s = << >> THEN <<e>>
    ELSE IF CountBefore(e, Head(s)) THEN <<e>> \o s
    ELSE <<Head(s)>> \o InsertByCount(Tail(s), e)

RECURSIVE SortByCount(_)
\* sorted(items, key=count, reverse=True): stable
SortByCount(s) ==
    IF s = << >> THEN << >>
    ELSE InsertByCount(SortByCount(SubSeq(s, 1, Len(s) - 1)), s[Len(s)])

\* Counter(toks).most_common(n), n >= 0
most_common(toks, n) ==
    LET keys == DistinctInOrder(toks)
        items == [k \in DOMAIN keys |-> [kw |-> keys[k], cnt |-> Occurrences(toks, keys[k])]]
    IN  Take(SortByCount(items), n)

\* rows of run_pipeline for one district: RANK from 1
AsRows(dist, rk) ==
    [k \in DOMAIN rk |-> [DIST |-> dist, RANK |-> k, KEYWORD |-> rk[k].kw,
                          SCORE_LOG_ODDS |-> rk[k].score,
                          COUNT_IN_DIST |-> rk[k].c1, COUNT_IN_OTHERS |-> rk[k].c0]]

\* the district names in str order: 광산구 < 남구 < 동구 < 북구 < 서구
DistrictsSorted == <<5, 3, 1, 4, 2>>

(***************************************************************************)
(* The text normalizers: clean_text_for_kw (architect_buildings),          *)
(* clean_text (main2) and clean_text (main).                               *)
(*                                                                         *)
(* A str is a sequence of characters, each a one-element string: a digit,  *)
(* " ", an ASCII punctuation mark, MIDDOT for U+00B7, or the romanisation  *)
(* of a Hangul syllable.  A Python value is [kind, s]: kind "str" with its *)
(* characters s, or kind "None", "NaN" or "number".                        *)
(***************************************************************************)
\* U+00B7 MIDDLE DOT, the separator RE_PUNCT retains
MIDDOT == "middot"

\* the characters \d matches
DigitChars == {"0", "1", "2", "3", "4", "5", "6", "7", "8", "9"}

\* the characters \s matches
SpaceChars == {" "}

\* punctuation of the inputs that \w does not match (the underscore is
\* punctuation that \w does match)
NonWordPunct == {"-", ".", ",", MIDDOT}

\* the Latin letters of "None" and "nan", kept apart from the romanised
\* syllables
LatinChars == {"Latin N", "Latin o", "Latin n", "Latin e", "Latin a"}

\* \w: letters, digits and the underscore
IsWordChar(c) == c \notin SpaceChars /\ c \notin NonWordPunct

\* [가-힣]
IsHangul(c) == IsWordChar(c) /\ c \notin DigitChars /\ c \notin LatinChars /\ c # "_"

PyString(s) == [kind |-> "str", s |-> s]

PyNone == [kind |-> "None", s |-> << >>]

PyNaN == [kind |-> "NaN", s |-> << >>]

PyNumber == [kind |-> "number", s |-> <<"1">>]

\* every value passes for a str
IsStrAlways(v) == TRUE

\* isinstance(text, str)
IsStr(v) == v.kind = "str"

\* str(v): "None", "nan", or the digits of the number
PyStr(v) ==
    CASE v.kind = "str" -> v.s
      [] v.kind = "None" -> <<"Latin N", "Latin o", "Latin n", "Latin e">>
      [] v.kind = "NaN" -> <<"Latin n", "Latin a", "Latin n">>
      [] OTHER -> v.s

RECURSIVE RunLength(_, _, _)
\* the number of consecutive characters of class C from position i on
RunLength(s, i, C) ==
    IF i > Len(s) \/ s[i] \notin C THEN 0 ELSE 1 + RunLength(s, i + 1, C)

\* s[i:i+len(lit)] == lit
StartsWithAt(s, i, lit) ==
    /\ i + Len(lit) - 1 <= Len(s)
    /\ \A k \in DOMAIN lit : s[i + k - 1] = lit[k]

RECURSIVE ReplaceFrom(_, _, _, _)
\* s[i:].replace(lit, rep): leftmost occurrences, not overlapping
ReplaceFrom(s, i, lit, rep) ==
    IF i > Len(s) THEN << >>
    ELSE IF StartsWithAt(s, i, lit) THEN rep \o ReplaceFrom(s, i + Len(lit), lit, rep)
    ELSE <<s[i]>> \o ReplaceFrom(s, i + 1, lit, rep)

\* "5·18"
LITERAL_518 == <<"5", MIDDOT, "1", "8">>

\* "오월민주화"
LABEL_518 == <<"o", "wol", "min", "ju", "hwa">>

\* the literal left in place
ReplaceLabelNever(t) == t

\* text.replace("5·18", "오월민주화")
ReplaceLabel(t) == ReplaceFrom(t, 1, LITERAL_518, LABEL_518)

\* RE_ORD = 제\s*\d+\s*(?:호|회): the length of the match at i, 0 if none
RE_ORD(s, i) ==
    IF i > Len(s) \/ s[i] # "je" THEN 0
    ELSE LET d == i + 1 + RunLength(s, i + 1, SpaceChars)
             n == RunLength(s, d, DigitChars)
             e == d + n + RunLength(s, d + n, SpaceChars)
         IN  IF n >= 1 /\ e <= Len(s) /\ s[e] \in {"ho", "hoe"} THEN e - i + 1 ELSE 0

\* k digits at i, then \s*, then 년: the length of that match, 0 if none
YearWith(s, i, k) ==
    LET e == i + k + RunLength(s, i + k, SpaceChars)
    IN  IF RunLength(s, i, DigitChars) >= k /\ e <= Len(s) /\ s[e] = "nyeon"
        THEN e - i + 1 ELSE 0

\* RE_YEAR = \d{3,4}\s*년: four digits are tried before three
RE_YEAR(s, i) == IF YearWith(s, i, 4) > 0 THEN YearWith(s, i, 4) ELSE YearWith(s, i, 3)

\* \b between s[i-1] and s[i]
BoundaryAt(s, i) ==
    (i > 1 /\ i - 1 <= Len(s) /\ IsWordChar(s[i - 1])) # (i <= Len(s) /\ IsWordChar(s[i]))

\* RE_NUM = \b\d+(?:[.]\d+)?\b with the separators seps of the fraction:
\* the digits are taken greedily, the fraction is tried before its absence
NumMatch(s, i, seps) ==
    LET n == RunLength(s, i, DigitChars)
        f == RunLength(s, i + n + 1, DigitChars)
    IN  IF n = 0 \/ ~BoundaryAt(s, i) THEN 0
        ELSE IF /\ i + n <= Len(s) /\ s[i + n] \in seps
                /\ f >= 1 /\ BoundaryAt(s, i + n + 1 + f)
             THEN n + 1 + f
        ELSE IF BoundaryAt(s, i + n) THEN n
        ELSE 0

\* RE_NUM of architect_buildings
RE_NUM(s, i) == NumMatch(s, i, {"."})

\* RE_NUM of main2: [.,]
RE_NUM_main2(s, i) == NumMatch(s, i, {".", ","})

\* RE_PUNCT = [^\w\s·]
RE_PUNCT(s, i) ==
    IF i <= Len(s) /\ ~IsWordChar(s[i]) /\ s[i] \notin SpaceChars /\ s[i] # MIDDOT
    THEN 1 ELSE 0

\* RE_MULTI = \s+
RE_MULTI(s, i) == RunLength(s, i, SpaceChars)

\* a bracket open at i with its first close after it: the length of the
\* match of open[^close]*close, 0 if none
Bracketed(s, i, open, close) ==
    IF i > Len(s) \/ s[i] # open \/ ~\E j \in (i + 1)..Len(s) : s[j] = close THEN 0
    ELSE (CHOOSE j \in (i + 1)..Len(s) :
             s[j] = close /\ \A k \in (i + 1)..(j - 1) : s[k] # close) - i + 1

\* the two characters lit at i and a space after them, then .*$: the match
\* runs to the end of the string (a facility name holds no line break)
SuffixFrom(s, i, lit) ==
    IF StartsWithAt(s, i, <<lit, " ">>) THEN Len(s) - i + 1 ELSE 0

\* 본관|별관|사무실|건물|홀|관|센터, in the order of the alternation
BUILDING_TYPES ==
    << <<"bon", "gwan">>, <<"byeol", "gwan">>, <<"sa", "mu", "sil">>,
       <<"geon", "mul">>, <<"hol">>, <<"gwan">>, <<"sen", "teo">> >>

\* a space and then the first alternative that matches
BuildingType(s, i) ==
    IF i > Len(s) \/ s[i] # " "
       \/ ~\E a \in DOMAIN BUILDING_TYPES : StartsWithAt(s, i + 1, BUILDING_TYPES[a])
    THEN 0
    ELSE 1 + Len(BUILDING_TYPES[CHOOSE a \in DOMAIN BUILDING_TYPES :
                   /\ StartsWithAt(s, i + 1, BUILDING_TYPES[a])
                   /\ \A b \in 1..(a - 1) : ~StartsWithAt(s, i + 1, BUILDING_TYPES[b])])

\* ^(제\d+호|NO\.\d+|[0-9]+번) and a space: only at the start of the string;
\* NO\.\d+ gives digits back until a space follows them, which no shorter
\* run of digits has
NumberPrefix(s, i) ==
    LET je == RunLength(s, 2, DigitChars)
        no == RunLength(s, 4, DigitChars)
        nb == RunLength(s, 1, DigitChars)
    IN  IF i # 1 THEN 0
        ELSE IF s[1] = "je" /\ je >= 1 /\ StartsWithAt(s, 2 + je, <<"ho", " ">>)
             THEN je + 3
        ELSE IF StartsWithAt(s, 1, <<"Latin N", "Latin O", ".">>) /\ no >= 1
                /\ StartsWithAt(s, 4 + no, <<" ">>)
             THEN no + 4
        ELSE IF nb >= 1 /\ StartsWithAt(s, 1 + nb, <<"beon", " ">>) THEN nb + 2
        ELSE 0

\* \d{1,4}년?: up to four digits, then 년 if it is there
Numbers(s, i) ==
    LET n == RunLength(s, i, DigitChars)
        d == IF n > 4 THEN 4 ELSE n
    IN  IF n = 0 THEN 0
        ELSE IF StartsWithAt(s, i + d, <<"nyeon">>) THEN d + 1 ELSE d

\* the rules of TextPreprocessor, in the order they are applied
RULES ==
    <<"parentheses", "parentheses_kr", "and_suffix", "with_suffix",
      "building_type", "number_prefix", "numbers", "extra_spaces">>

\* the length of the match of the pattern of a rule at position i of s
RuleMatch(rule, s, i) ==
    CASE rule = "parentheses" -> Bracketed(s, i, "(", ")")
      [] rule = "parentheses_kr" -> Bracketed(s, i, "fullwidth (", "fullwidth )")
      [] rule = "and_suffix" -> SuffixFrom(s, i, "mit")
      [] rule = "with_suffix" -> SuffixFrom(s, i, ",")
      [] rule = "building_type" -> BuildingType(s, i)
      [] rule = "number_prefix" -> NumberPrefix(s, i)
      [] rule = "numbers" -> Numbers(s, i)
      [] rule = "extra_spaces" -> RunLength(s, i, SpaceChars)

\* the length of the match of the compiled pattern at position i of s
MatchAt(pattern, s, i) ==
    CASE pattern = "RE_ORD" -> RE_ORD(s, i)
      [] pattern = "RE_YEAR" -> RE_YEAR(s, i)
      [] pattern = "RE_NUM" -> RE_NUM(s, i)
      [] pattern = "main2.RE_NUM" -> RE_NUM_main2(s, i)
      [] pattern = "RE_PUNCT" -> RE_PUNCT(s, i)
      [] pattern = "RE_MULTI" -> RE_MULTI(s, i)
      [] OTHER -> RuleMatch(pattern, s, i)

RECURSIVE SubFrom(_, _, _, _)
\* pattern.sub(rep, s) from position i on (no pattern here matches the
\* empty string)
SubFrom(pattern, rep, s, i) ==
    IF i > Len(s) THEN << >>
    ELSE IF MatchAt(pattern, s, i) > 0
         THEN rep \o SubFrom(pattern, rep, s, i + MatchAt(pattern, s, i))
    ELSE <<s[i]>> \o SubFrom(pattern, rep, s, i + 1)

\* pattern.sub(" ", s)
SubSpace(pattern, s) == SubFrom(pattern, <<" ">>, s, 1)

\* s.strip()
Strip(s) ==
    IF \A k \in DOMAIN s : s[k] \in SpaceChars THEN << >>
    ELSE LET a == 1 + RunLength(s, 1, SpaceChars)
             b == CHOOSE k \in DOMAIN s :
                     /\ s[k] \notin SpaceChars
                     /\ \A j \in (k + 1)..Len(s) : s[j] \in SpaceChars
         IN  SubSeq(s, a, b)

RECURSIVE ApplyRules(_, _)
\* for rule_name, pattern, desc in self.rules[k:]:
\*     result = re.sub(pattern, " ", result)
ApplyRules(result, k) ==
    IF k > Len(RULES) THEN result
    ELSE ApplyRules(SubSpace(RULES[k], result), k + 1)

\* TextPreprocessor.clean
clean(text) ==
    IF ~IsStr(text) \/ Strip(text.s) = << >> THEN << >>
    ELSE SubSpace("RE_MULTI", Strip(ApplyRules(Strip(text.s), 1)))

\* the five substitutions and the strip that follow the replacement
StripPatterns(t, re_num) ==
    Strip(SubSpace("RE_MULTI",
          SubSpace("RE_PUNCT",
          SubSpace(re_num, SubSpace("RE_YEAR", SubSpace("RE_ORD", t))))))

\* a normalizer outcome: the exception raised, or "none" and the str returned
Returned(s) == [err |-> "none", out |-> s]

Raised(e) == [err |-> e, out |-> << >>]

\* the body shared by the two normalizers; str.replace on a value that is
\* not a str raises AttributeError
CleanWith(text, re_num) ==
    IF ~IsStr(text) THEN Returned(<< >>)
    ELSE IF text.kind # "str" THEN Raised("AttributeError")
    ELSE Returned(StripPatterns(ReplaceLabel(text.s), re_num))

\* clean_text_for_kw of architect_buildings
clean_text_for_kw(text) == CleanWith(text, "RE_NUM")

\* clean_text of main2
clean_text_main2(text) == CleanWith(text, "main2.RE_NUM")

RECURSIVE SplitFrom(_, _)
\* s[i:].split(): the maximal runs of non-whitespace characters
SplitFrom(s, i) ==
    IF i > Len(s) THEN << >>
    ELSE IF s[i] \in SpaceChars THEN SplitFrom(s, i + 1)
    ELSE LET n == RunLength(s, i, {s[k] : k \in DOMAIN s} \ SpaceChars)
         IN  <<SubSeq(s, i, i + n - 1)>> \o SplitFrom(s, i + n)

\* clean_text of main: re.sub(r"[^가-힣\s]", "", str(text)).split()
clean_text_main(text) ==
    SplitFrom(SelectSeq(PyStr(text), LAMBDA c : IsHangul(c) \/ c \in SpaceChars), 1)

\* stopwords = ["있다", "이다", "한다", "있는", "대한", "위해", "관련"]
LOCAL_STOPWORDS == {<<"it", "da">>, <<"i", "da">>, <<"han", "da">>, <<"it", "neun">>,
                    <<"dae", "han">>, <<"wi", "hae">>, <<"gwan", "ryeon">>}

\* the characters of a str, each as a str of length 1 (list.extend(str))
CharsOf(s) == [k \in DOMAIN s |-> <<s[k]>>]

\* words.extend(clean_text(text)) of main, for one description
WordsOf_main(text) == clean_text_main(text)

\* words.extend(clean_text(text)) of main2, for one description:
\* clean_text returns a str and extend iterates its characters
WordsOf_main2(text) == CharsOf(clean_text_main2(text).out)

\* Series.dropna(): None and NaN are left out
DropNa(texts) == SelectSeq(texts, LAMBDA v : v.kind \notin {"None", "NaN"})

\* what words.extend(clean_text(text)) of module adds
WordsOf(module, text) ==
    IF module = "main2" THEN WordsOf_main2(text) ELSE WordsOf_main(text)

RECURSIVE ExtendAll(_, _)
\* words = []; for text in texts: words.extend(clean_text(text))
ExtendAll(module, texts) ==
    IF texts = << >> THEN << >>
    ELSE WordsOf(module, Head(texts)) \o ExtendAll(module, Tail(texts))

\* Counter(words) as its items in insertion order
CounterItems(words) ==
    LET keys == DistinctInOrder(words)
    IN  [k \in DOMAIN keys |-> [kw |-> keys[k], cnt |-> Occurrences(words, keys[k])]]

\* for stopword in stopwords: counter.pop(stopword, None)
PopAll(items, stopwords) == SelectSeq(items, LAMBDA it : it.kw \notin stopwords)

\* counter.most_common(10)
TOP_KEYWORDS == 10

\* the Counter of one district at module level: [counter, keywords]
district_keywords(module, texts) ==
    LET counter == PopAll(CounterItems(ExtendAll(module, DropNa(texts))), LOCAL_STOPWORDS)
    IN  [counter |-> counter, keywords |-> Take(SortByCount(counter), TOP_KEYWORDS)]

(***************************************************************************)
(* extract_district of architect_buildings and main (regex search), of     *)
(* main2 (first district of DISTRICTS contained, else None) and of         *)
(* Gwangju_omae_tour_map (the word after "광주", else first contained).    *)
(***************************************************************************)
\* lit in s
Contains(s, lit) == \E i \in 1..(Len(s) + 1) : StartsWithAt(s, i, lit)

\* the first district in the order of DISTRICTS that s contains, or none
FirstContained(s, none) ==
    IF \E d \in DOMAIN DISTRICTS : Contains(s, DISTRICTS[d])
    THEN DISTRICTS[CHOOSE d \in DOMAIN DISTRICTS :
                      /\ Contains(s, DISTRICTS[d])
                      /\ \A e \in 1..(d - 1) : ~Contains(s, DISTRICTS[e])]
    ELSE none

\* the names searched in the order of the alternation, not by position
SearchByPriority(s, i) == FirstContained(s, ETC)

RECURSIVE Search(_, _)
\* re.search(r"(동구|서구|남구|북구|광산구)", s) from position i on: the match
\* at the first position where an alternative matches, "기타" if there is none
Search(s, i) ==
    IF i > Len(s) THEN ETC
    ELSE IF \E d \in DOMAIN DISTRICTS : StartsWithAt(s, i, DISTRICTS[d])
         THEN DISTRICTS[CHOOSE d \in DOMAIN DISTRICTS :
                           /\ StartsWithAt(s, i, DISTRICTS[d])
                           /\ \A e \in 1..(d - 1) : ~StartsWithAt(s, i, DISTRICTS[e])]
    ELSE Search(s, i + 1)

\* extract_district of architect_buildings and of main
extract_district(address) == Search(PyStr(address), 1)

\* extract_district of main2
extract_district_main2(addr) ==
    IF ~IsStr(addr) THEN NONE ELSE FirstContained(addr.s, NONE)

\* "광주"
GWANGJU == <<"gwang", "ju">>

\* the first i with parts[i] == "광주" and parts[i + 1] in DISTRICTS, or 0
AfterGwangju(parts) ==
    LET hits == {i \in 1..(Len(parts) - 1) :
                    parts[i] = GWANGJU /\ parts[i + 1] \in DistrictSet}
    IN  IF hits = {} THEN 0 ELSE CHOOSE i \in hits : \A j \in hits : i <= j

\* extract_district of Gwangju_omae_tour_map
extract_district_tour_map(address) ==
    IF ~IsStr(address) THEN ETC
    ELSE LET parts == SplitFrom(Strip(address.s), 1)
         IN  IF AfterGwangju(parts) > 0 THEN parts[AfterGwangju(parts) + 1]
             ELSE FirstContained(address.s, ETC)

(***************************************************************************)
(* The geocoding wrappers: geocode_address of architect_buildings, main    *)
(* and main2 (Nominatim behind a RateLimiter) and geocode_with_kakao; and  *)
(* load_or_geocode of architect_buildings.                                 *)
(*                                                                         *)
(* The external service is an input: for the Nominatim wrappers what each  *)
(* successive request does, for Kakao what the one HTTP request does.      *)
(* A latitude or longitude is "None" or "coord", a returned float.         *)
(***************************************************************************)
\* RateLimiter(..., max_retries=3) of architect_buildings and main2
MAX_RETRIES == 3

\* RateLimiter(...) of main: max_retries is left at its default
DEFAULT_MAX_RETRIES == 2

\* what one request to Nominatim does: a Location, None, or an exception
AttemptOutcomes ==
    {"location", "nothing", "GeocoderTimedOut", "GeocoderUnavailable", "Exception"}

\* the exceptions a RateLimiter retries (GeocoderServiceError)
RetryExceptions == {"GeocoderTimedOut", "GeocoderUnavailable"}

RECURSIVE RateLimiter(_, _, _)
\* geocode(address) through RateLimiter(swallow_exceptions=True,
\* max_retries): request number k answers behaviour[k].  A service error
\* is retried, and swallowed into None on the last try; any other
\* exception is raised to the caller.  [err, loc, requests]
RateLimiter(behaviour, k, max_retries) ==
    LET o == behaviour[k]
    IN  IF o \in RetryExceptions
        THEN IF k > max_retries THEN [err |-> "none", loc |-> "None", requests |-> k]
             ELSE RateLimiter(behaviour, k + 1, max_retries)
        ELSE IF o = "Exception" THEN [err |-> o, loc |-> "None", requests |-> k]
        ELSE [err |-> "none", loc |-> IF o = "location" THEN "Location" ELSE "None",
              requests |-> k]

\* a handler that lets the exception through
CatchesNothing(e) == FALSE

\* `except Exception:` and the bare `except:` of main
CatchesException(e) == TRUE

\* pd.Series([None, None])
ABSENT == [latitude |-> "None", longitude |-> "None"]

\* pd.Series([loc.latitude, loc.longitude])
COORDS == [latitude |-> "coord", longitude |-> "coord"]

\* geocode_address: [err, value, requests]
geocode_address(behaviour, max_retries) ==
    LET r == RateLimiter(behaviour, 1, max_retries)
    IN  IF r.err # "none"
        THEN IF CatchesException(r.err)
             THEN [err |-> "none", value |-> ABSENT, requests |-> r.requests]
             ELSE [err |-> r.err, value |-> ABSENT, requests |-> r.requests]
        ELSE [err |-> "none", value |-> IF r.loc = "Location" THEN COORDS ELSE ABSENT,
              requests |-> r.requests]

\* max_retries of the module's RateLimiter
RetriesOf(module) == IF module = "main" THEN DEFAULT_MAX_RETRIES ELSE MAX_RETRIES

\* what the one request of geocode_with_kakao does: the exception
\* requests.get raises, or the response it returns
KakaoResponses ==
    {"Timeout", "ConnectionError", "Exception",
     "status 401", "status 500",
     "200 invalid json", "200 no documents", "200 document",
     "200 document without x y", "200 document with unparsable y"}

\* facility_name: a name, "", None, NaN
FacilityNames == {"name", "", "None", "NaN"}

\* geocode_with_kakao: [err, value, status, requests]
geocode_with_kakao(facility_name, response) ==
    IF facility_name # "name"
    THEN [err |-> "none", value |-> ABSENT, status |-> "invalid_input", requests |-> 0]
    ELSE LET ret(v, st) == [err |-> "none", value |-> v, status |-> st, requests |-> 1]
             caught(e, st) ==
                 IF CatchesException(e) THEN ret(ABSENT, st)
                 ELSE [err |-> e, value |-> ABSENT, status |-> st, requests |-> 1]
         IN  CASE response = "Timeout" -> caught("Timeout", "timeout")
               [] response = "ConnectionError" -> caught("ConnectionError", "connection_error")
               [] response = "Exception" -> caught("Exception", "error")
               [] response \in {"status 401", "status 500"} -> ret(ABSENT, "api_error")
               [] response = "200 invalid json" -> caught("ValueError", "error")
               [] response = "200 no documents" -> ret(ABSENT, "not_found")
               [] response = "200 document with unparsable y" -> caught("ValueError", "error")
               [] OTHER -> ret(COORDS, "success")

\* the cache file does not exist
NO_FILE == [exists |-> FALSE, columns |-> {}, rows |-> << >>]

\* the condition under which load_or_geocode returns the cache: the file
\* exists, has both columns, and a row with both values
CacheUsable(cache) ==
    /\ cache.exists
    /\ {"latitude", "longitude"} \subseteq cache.columns
    /\ \E k \in DOMAIN cache.rows :
          cache.rows[k].latitude # "None" /\ cache.rows[k].longitude # "None"

\* df.dropna(subset=["ADDR"]).reset_index(drop=True): the input rows that
\* have an address, by their position in the input
WithAddress(input) ==
    SelectSeq([k \in DOMAIN input |-> [row |-> k, ADDR |-> input[k]]],
              LAMBDA r : r.ADDR # "NaN")

(***************************************************************************)
(* Idle values of the normalizer, district and geocoding state.            *)
(***************************************************************************)
\* no normalizer is being called
TextIdle ==
    /\ tcaller = "none" /\ tinput = PyNone /\ tpc = "idle"
    /\ tout1 = << >> /\ tout2 = << >>
    /\ tcounter = << >> /\ tkeywords = << >> /\ traised = "none"

\* no district is being assigned
DistIdle == dmodule = "none" /\ daddr = PyNone /\ dpc = "idle" /\ dlabel = << >>

\* nothing is being geocoded
GeoIdle ==
    /\ gentry = "none" /\ gbehaviour = << >> /\ gname = "" /\ gresponse = ""
    /\ gpc = "idle" /\ gvalue = ABSENT /\ gstatus = "" /\ graised = "none"
    /\ grequests = 0 /\ gcache = NO_FILE /\ ginput = << >>
    /\ gdf = << >> /\ gidx = 0 /\ gcalls = << >> /\ gwritten = FALSE

(***************************************************************************)
(* The two entry points over a small frame of records.                     *)
(***************************************************************************)
MaxRecords == 2
SmallTopN == 1
\* build_district_keywords(df, topn=15, min_count=2)
BDK_TOPN == 15
\* run_pipeline(csv_path, out_prefix, topn=30)
RP_TOPN == 30

NoCounters == [i \in DOMAIN DISTRICTS |-> EmptyCounter(Forms)]

NoPayload == [k \in DOMAIN DISTRICTS_WITH_ETC |-> << >>]

\* no district has been ranked
NoRanked == [k \in DOMAIN DISTRICTS |-> << >>]

\* no entry point is running
PipeIdle ==
    /\ entry = "none" /\ records = << >> /\ ptopn = 0 /\ pc = "idle"
    /\ counters = NoCounters /\ rests = NoCounters
    /\ payload = NoPayload /\ etc_counter = EmptyCounter(Forms)
    /\ pranked = NoRanked
    /\ rows = << >> /\ out = << >> /\ praised = "none"

Tok(form, tag) == [form |-> form, tag |-> tag]

\* DC_CN after cleaning: "", a text without analysis, and two texts
\* 한옥 한옥 정원 광주 / 정원 정원 아파트 집 짓다
PipelineDescs ==
    {[text_empty |-> TRUE, analyzed |-> << >>],
     [text_empty |-> FALSE, analyzed |-> << >>],
     [text_empty |-> FALSE, analyzed |->
        << <<Tok(<<"han", "ok">>, "NNG"), Tok(<<"han", "ok">>, "NNG"),
             Tok(<<"jeong", "won">>, "NNP"), Tok(<<"gwang", "ju">>, "NNP")>> >>],
     [text_empty |-> FALSE, analyzed |->
        << <<Tok(<<"jeong", "won">>, "NNP"), Tok(<<"jeong", "won">>, "NNP"),
             Tok(<<"a", "pa", "teu">>, "NNG"), Tok(<<"jip">>, "NNG"),
             Tok(<<"jit", "da">>, "VV")>> >>]}

\* the labels the entry point's own extract_district can give a record
LabelsOf(entry_point) ==
    DistrictSet \cup (IF entry_point = "run_pipeline" THEN {NONE} ELSE {ETC})

InitPipe ==
    /\ entry \in {"build_district_keywords", "run_pipeline"}
    /\ records \in SeqsUpTo([district : LabelsOf(entry), desc : PipelineDescs], MaxRecords)
    /\ ptopn \in (IF entry = "run_pipeline" THEN {RP_TOPN} ELSE {SmallTopN, BDK_TOPN})
    /\ pc = "start"
    /\ counters = NoCounters /\ rests = NoCounters
    /\ payload = NoPayload /\ etc_counter = EmptyCounter(Forms)
    /\ pranked = NoRanked
    /\ rows = << >> /\ out = << >> /\ praised = "none"
    /\ RankIdle
    /\ NounsIdle
    /\ TextIdle /\ DistIdle /\ GeoIdle /\ ScriptsIdle

\* every way the five calls of the ranking loop can come out
RankingOutcomes(cnts, n) ==
    {<<a, b, c, d, e>> :
        a \in log_odds_dirichlet(cnts[1], RestOf(cnts, 1), ALPHA, n, MIN_COUNT),
        b \in log_odds_dirichlet(cnts[2], RestOf(cnts, 2), ALPHA, n, MIN_COUNT),
        c \in log_odds_dirichlet(cnts[3], RestOf(cnts, 3), ALPHA, n, MIN_COUNT),
        d \in log_odds_dirichlet(cnts[4], RestOf(cnts, 4), ALPHA, n, MIN_COUNT),
        e \in log_odds_dirichlet(cnts[5], RestOf(cnts, 5), ALPHA, n, MIN_COUNT)}

\* the exception of the first call that raises, or "none"
FirstError(rs) ==
    IF \A i \in DOMAIN rs : rs[i].err = "none" THEN "none"
    ELSE rs[CHOOSE i \in DOMAIN rs :
              rs[i].err # "none" /\ \A j \in 1..(i - 1) : rs[j].err = "none"].err

\* build_district_keywords, step 1: the per-district noun counters
BDK_Count ==
    /\ entry = "build_district_keywords" /\ pc = "start"
    /\ LET r == CountDistricts(entry, records)
       IN  /\ pc' = IF r.err = "none" THEN "counted" ELSE "raised"
           /\ praised' = r.err
           /\ counters' = r.counters
    /\ UNCHANGED <<entry, records, ptopn, rests, payload, etc_counter, pranked, rows, out>>
    /\ UNCHANGED <<rankVars, nounVars, textVars, distVars, geoVars, scriptVars>>

\* build_district_keywords, step 2: one-vs-rest ranking of each district
BDK_Rank ==
    /\ entry = "build_district_keywords" /\ pc = "counted"
    /\ rests' = [i \in DOMAIN DISTRICTS |-> RestOf(counters, i)]
    /\ \E rs \in RankingOutcomes(counters, ptopn) :
          /\ pc' = IF FirstError(rs) = "none" THEN "ranked" ELSE "raised"
          /\ praised' = FirstError(rs)
          /\ pranked' = [k \in DOMAIN DISTRICTS |->
                           IF FirstError(rs) = "none" THEN rs[k].out ELSE << >>]
          /\ payload' = [k \in DOMAIN DISTRICTS_WITH_ETC |->
                           IF k \in DOMAIN DISTRICTS /\ FirstError(rs) = "none"
                           THEN AsPayload(rs[k].out) ELSE << >>]
    /\ UNCHANGED <<entry, records, ptopn, counters, etc_counter, rows, out>>
    /\ UNCHANGED <<rankVars, nounVars, textVars, distVars, geoVars, scriptVars>>

\* build_district_keywords, step 3: the 기타 bucket by raw frequency
BDK_Etc ==
    /\ entry = "build_district_keywords" /\ pc = "ranked"
    /\ LET r == CollectTokens(entry, records, ETC)
           top == most_common(r.toks, ptopn)
       IN  /\ pc' = IF r.err = "none" THEN "done" ELSE "raised"
           /\ praised' = r.err
           /\ etc_counter' = Counter(r.toks)
           /\ payload' = [payload EXCEPT ![Len(DISTRICTS_WITH_ETC)] =
                            [k \in DOMAIN top |->
                               [kw |-> top[k].kw, cnt |-> top[k].cnt, score |-> ZERO_SCORE]]]
    /\ UNCHANGED <<entry, records, ptopn, counters, rests, pranked, rows, out>>
    /\ UNCHANGED <<rankVars, nounVars, textVars, distVars, geoVars, scriptVars>>

\* run_pipeline: df[df["DIST"].isin(DISTRICTS)] and the per-district counters
RP_Count ==
    /\ entry = "run_pipeline" /\ pc = "start"
    /\ LET r == CountDistricts(entry, records)
       IN  /\ pc' = IF r.err = "none" THEN "counted" ELSE "raised"
           /\ praised' = r.err
           /\ counters' = r.counters
    /\ UNCHANGED <<entry, records, ptopn, rests, payload, etc_counter, pranked, rows, out>>
    /\ UNCHANGED <<rankVars, nounVars, textVars, distVars, geoVars, scriptVars>>

\* run_pipeline: one-vs-rest ranking, one row per ranked keyword
RP_Rank ==
    /\ entry = "run_pipeline" /\ pc = "counted"
    /\ rests' = [i \in DOMAIN DISTRICTS |-> RestOf(counters, i)]
    /\ \E rs \in RankingOutcomes(counters, ptopn) :
          /\ pc' = IF FirstError(rs) = "none" THEN "ranked" ELSE "raised"
          /\ praised' = FirstError(rs)
          /\ rows' = IF FirstError(rs) # "none" THEN << >>
                     ELSE AsRows(DISTRICTS[1], rs[1].out) \o AsRows(DISTRICTS[2], rs[2].out)
                          \o AsRows(DISTRICTS[3], rs[3].out) \o AsRows(DISTRICTS[4], rs[4].out)
                          \o AsRows(DISTRICTS[5], rs[5].out)
    /\ UNCHANGED <<entry, records, ptopn, counters, payload, etc_counter, pranked, out>>
    /\ UNCHANGED <<rankVars, nounVars, textVars, distVars, geoVars, scriptVars>>

\* the rows of district dist, in list order
RowsOf(rws, dist) == SelectSeq(rws, LAMBDA r : r.DIST = dist)

\* run_pipeline: pd.DataFrame(rows).sort_values(["DIST", "RANK"]) and the
\* save.  A frame built from an empty list has no columns, and sort_values
\* on a missing column raises KeyError.
RP_Save ==
    /\ entry = "run_pipeline" /\ pc = "ranked"
    /\ IF rows = << >>
       THEN /\ pc' = "raised" /\ praised' = "KeyError" /\ out' = << >>
       ELSE /\ pc' = "done" /\ praised' = "none"
            /\ out' = RowsOf(rows, DISTRICTS[DistrictsSorted[1]])
                      \o RowsOf(rows, DISTRICTS[DistrictsSorted[2]])
                      \o RowsOf(rows, DISTRICTS[DistrictsSorted[3]])
                      \o RowsOf(rows, DISTRICTS[DistrictsSorted[4]])
                      \o RowsOf(rows, DISTRICTS[DistrictsSorted[5]])
    /\ UNCHANGED <<entry, records, ptopn, counters, rests, payload, etc_counter, pranked, rows>>
    /\ UNCHANGED <<rankVars, nounVars, textVars, distVars, geoVars, scriptVars>>

Init == InitPipe

Next ==
    \/ BDK_Count
    \/ BDK_Rank
    \/ BDK_Etc
    \/ RP_Count
    \/ RP_Rank
    \/ RP_Save

Spec == Init /\ [][Next]_vars

(***************************************************************************)
(* The ranker as a pure function: any counters, alpha, topn, min_count.    *)
(***************************************************************************)
MaxTotal == 5
MaxTopN == 2

Counters == [Tokens -> 0..MaxTotal]

\* every caller's alpha, the unsmoothed edge 0, and 1
Alphas == {RatOfInt(0), ALPHA, RatOfInt(1)}

InitRank ==
    /\ one \in Counters
    /\ rest \in Counters
    /\ SumValues(one) + SumValues(rest) <= MaxTotal
    /\ alpha \in Alphas
    /\ topn \in 0..MaxTopN
    /\ min_count \in 0..MIN_COUNT
    /\ rpc = "call"
    /\ ranked = << >> /\ ranked2 = << >>
    /\ raised = "none"
    /\ NounsIdle
    /\ PipeIdle
    /\ TextIdle /\ DistIdle /\ GeoIdle /\ ScriptsIdle

CallLogOdds ==
    /\ rpc = "call"
    /\ \E r \in log_odds_dirichlet(one, rest, alpha, topn, min_count) :
          /\ rpc' = IF r.err = "none" THEN "returned" ELSE "raised"
          /\ ranked' = r.out
          /\ raised' = r.err
    /\ UNCHANGED <<one, rest, alpha, topn, min_count, ranked2>>
    /\ UNCHANGED <<nounVars, pipeVars, textVars, distVars, geoVars, scriptVars>>

NextRank == CallLogOdds

SpecRank == InitRank /\ [][NextRank]_vars

\* a second run of the same call: the set vocab may be visited in another
\* order (str hashes are salted per process)
CallLogOddsAgain ==
    /\ rpc = "returned"
    /\ \E r \in log_odds_dirichlet(one, rest, alpha, topn, min_count) :
          /\ rpc' = IF r.err = "none" THEN "returned twice" ELSE "raised on rerun"
          /\ ranked2' = r.out
          /\ raised' = r.err
    /\ UNCHANGED <<one, rest, alpha, topn, min_count, ranked>>
    /\ UNCHANGED <<nounVars, pipeVars, textVars, distVars, geoVars, scriptVars>>

NextRuns == CallLogOdds \/ CallLogOddsAgain

\* the arguments of a call that smooths (alpha > 0)
InitRuns == InitRank /\ RatSign(alpha) > 0

\* two runs of the ranker on the same arguments
SpecRuns == InitRuns /\ [][NextRuns]_vars

InitNouns ==
    /\ nvariant \in {"architect_buildings", "main2"}
    /\ ndesc \in Descriptions(MaxAnalysisLen)
    /\ npc = "call"
    /\ ntoks = << >>
    /\ nraised = "none"
    /\ RankIdle
    /\ PipeIdle
    /\ TextIdle /\ DistIdle /\ GeoIdle /\ ScriptsIdle

CallNounsOnly ==
    /\ npc = "call"
    /\ LET r == IF nvariant = "main2" THEN nouns_only_main2(ndesc)
                ELSE nouns_only(ndesc)
       IN  /\ npc' = IF r.err = "none" THEN "returned" ELSE "raised"
           /\ ntoks' = r.toks
           /\ nraised' = r.err
    /\ UNCHANGED <<nvariant, ndesc>>
    /\ UNCHANGED <<rankVars, pipeVars, textVars, distVars, geoVars, scriptVars>>

NextNouns == CallNounsOnly

SpecNouns == InitNouns /\ [][NextNouns]_vars

(***************************************************************************)
(* The normalizers as pure functions of any value.                         *)
(***************************************************************************)
MaxTextLen == 4

\* what a description is made of: a digit, the literal "5·18", 제, 호, 년,
\* a space, "-", "·" and "_"
TextPieces ==
    {<<"1">>, LITERAL_518, <<"je">>, <<"ho">>, <<"nyeon">>, <<" ">>,
     <<"-">>, <<MIDDOT>>, <<"_">>}

RECURSIVE Flatten(_)
Flatten(ps) == IF ps = << >> THEN << >> ELSE Head(ps) \o Flatten(Tail(ps))

\* a str of up to maxlen pieces, None, NaN or a number
TextValues(pieces, maxlen) ==
    {PyString(Flatten(ps)) : ps \in SeqsUpTo(pieces, maxlen)} \cup {PyNone, PyNaN, PyNumber}

InitText ==
    /\ tinput \in TextValues(TextPieces, MaxTextLen)
    /\ tcaller = "none" /\ tpc = "start"
    /\ tout1 = << >> /\ tout2 = << >>
    /\ tcounter = << >> /\ tkeywords = << >> /\ traised = "none"
    /\ RankIdle /\ NounsIdle /\ PipeIdle /\ DistIdle /\ GeoIdle /\ ScriptsIdle

\* the normalizer of module
CleanOf(module, text) ==
    IF module = "main2" THEN clean_text_main2(text) ELSE clean_text_for_kw(text)

\* clean_text_for_kw(tinput) or main2.clean_text(tinput)
CallCleanText(module) ==
    /\ tpc = "start"
    /\ tcaller' = module
    /\ LET r == CleanOf(module, tinput)
       IN  /\ tpc' = IF r.err = "none" THEN "once" ELSE "raised"
           /\ tout1' = r.out
           /\ traised' = r.err
    /\ UNCHANGED <<tinput, tout2, tcounter, tkeywords>>
    /\ UNCHANGED <<rankVars, nounVars, pipeVars, distVars, geoVars, scriptVars>>

\* the normalizer applied to what it returned
CallCleanTextAgain ==
    /\ tpc = "once"
    /\ LET r == CleanOf(tcaller, PyString(tout1))
       IN  /\ tpc' = IF r.err = "none" THEN "twice" ELSE "raised"
           /\ tout2' = r.out
           /\ traised' = r.err
    /\ UNCHANGED <<tcaller, tinput, tout1, tcounter, tkeywords>>
    /\ UNCHANGED <<rankVars, nounVars, pipeVars, distVars, geoVars, scriptVars>>

NextText ==
    \/ \E module \in {"architect_buildings", "main2"} : CallCleanText(module)
    \/ CallCleanTextAgain

SpecText == InitText /\ [][NextText]_vars

(***************************************************************************)
(* The module-level keyword loop of main and main2 over a district with    *)
(* one description.                                                        *)
(***************************************************************************)
MaxDescLen == 3

\* what DC_CN is made of: 집, 대한 (a stopword of the loop), 한옥, a space,
\* a digit and "-"
DescPieces == {<<"jip">>, <<"dae", "han">>, <<"han", "ok">>, <<" ">>, <<"1">>, <<"-">>}

InitKeywords ==
    /\ tinput \in TextValues(DescPieces, MaxDescLen)
    /\ tcaller = "none" /\ tpc = "start"
    /\ tout1 = << >> /\ tout2 = << >>
    /\ tcounter = << >> /\ tkeywords = << >> /\ traised = "none"
    /\ RankIdle /\ NounsIdle /\ PipeIdle /\ DistIdle /\ GeoIdle /\ ScriptsIdle

\* one round of the loop `for district in df["district"].unique()` of main
\* or main2, for a district whose one record has DC_CN = tinput
DistrictKeywords(module) ==
    /\ tpc = "start"
    /\ tcaller' = module \o ".district_keywords"
    /\ LET r == district_keywords(module, <<tinput>>)
       IN  /\ tcounter' = r.counter
           /\ tkeywords' = r.keywords
    /\ tpc' = "keywords"
    /\ UNCHANGED <<tinput, tout1, tout2, traised>>
    /\ UNCHANGED <<rankVars, nounVars, pipeVars, distVars, geoVars, scriptVars>>

NextKeywords ==
    \E module \in {"main", "main2"} : DistrictKeywords(module)

SpecKeywords == InitKeywords /\ [][NextKeywords]_vars

(***************************************************************************)
(* District assignment: df["district"] = df["ADDR"].apply(extract_district) *)
(* of architect_buildings.main, main, main2 and create_tourist_map, for    *)
(* one address of the column.                                              *)
(***************************************************************************)
MaxAddrLen == 4

\* what an address is made of: 동구, 북구, 광산구, 광주, a space and 로
AddrPieces == {<<"dong", "gu">>, <<"buk", "gu">>, <<"gwang", "san", "gu">>,
               GWANGJU, <<" ">>, <<"ro">>}

\* the modules that assign a district column
DistrictModules == {"architect_buildings", "main", "main2", "Gwangju_omae_tour_map"}

InitDistrict ==
    /\ daddr \in TextValues(AddrPieces, MaxAddrLen)
    /\ dmodule = "none" /\ dpc = "start" /\ dlabel = << >>
    /\ RankIdle /\ NounsIdle /\ PipeIdle /\ TextIdle /\ GeoIdle /\ ScriptsIdle

\* the extract_district that module applies
ExtractOf(module, address) ==
    CASE module = "main2" -> extract_district_main2(address)
      [] module = "Gwangju_omae_tour_map" -> extract_district_tour_map(address)
      [] OTHER -> extract_district(address)

\* .apply(extract_district) on the address
AssignDistrict(module) ==
    /\ dpc = "start"
    /\ dmodule' = module
    /\ dlabel' = ExtractOf(module, daddr)
    /\ dpc' = "assigned"
    /\ UNCHANGED <<daddr, rankVars, nounVars, pipeVars, textVars, geoVars, scriptVars>>

NextDistrict == \E module \in DistrictModules : AssignDistrict(module)

SpecDistrict == InitDistrict /\ [][NextDistrict]_vars

(***************************************************************************)
(* Geocoding: one call of a wrapper (geocode_address of architect_         *)
(* buildings, main or main2, or geocode_with_kakao), or one run of         *)
(* load_or_geocode over a cache file and an input file.                    *)
(***************************************************************************)
MaxCacheRows == 1
MaxInputRows == 2

\* the modules with a geocode_address
GeoModules == {"architect_buildings", "main", "main2"}

\* what each request of one geocode_address call does
Behaviours(max_retries) == [1..(max_retries + 1) -> AttemptOutcomes]

\* the cache file as found: absent, or a frame with some of the two
\* columns and rows whose latitude and longitude are null or a float
CacheFiles(maxrows) ==
    {NO_FILE} \cup
    [exists : {TRUE}, columns : SUBSET {"latitude", "longitude"},
     rows : SeqsUpTo([latitude : {"None", "coord"}, longitude : {"None", "coord"}], maxrows)]

\* the ADDR column of the input file: an address or NaN per row
InputFiles(maxrows) == SeqsUpTo({"addr", "NaN"}, maxrows)

InitGeo ==
    /\ gentry \in {"architect_buildings.geocode_address", "main.geocode_address",
                   "main2.geocode_address", "geocode_with_kakao", "load_or_geocode"}
    /\ gbehaviour \in
          CASE gentry \in {"architect_buildings.geocode_address", "main2.geocode_address"}
                  -> Behaviours(MAX_RETRIES)
            [] gentry = "main.geocode_address" -> Behaviours(DEFAULT_MAX_RETRIES)
            [] OTHER -> {<< >>}
    /\ gname \in (IF gentry = "geocode_with_kakao" THEN FacilityNames ELSE {""})
    /\ gresponse \in (IF gentry = "geocode_with_kakao" THEN KakaoResponses ELSE {""})
    /\ gcache \in (IF gentry = "load_or_geocode" THEN CacheFiles(MaxCacheRows) ELSE {NO_FILE})
    /\ ginput \in (IF gentry = "load_or_geocode" THEN InputFiles(MaxInputRows) ELSE {<< >>})
    /\ gpc = "start"
    /\ gvalue = ABSENT /\ gstatus = "" /\ graised = "none" /\ grequests = 0
    /\ gdf = << >> /\ gidx = 0 /\ gcalls = << >> /\ gwritten = FALSE
    /\ RankIdle /\ NounsIdle /\ PipeIdle /\ TextIdle /\ DistIdle /\ ScriptsIdle

\* geocode_address(address) of module
CallGeocodeAddress(module) ==
    /\ module \in GeoModules
    /\ gentry = module \o ".geocode_address" /\ gpc = "start"
    /\ LET r == geocode_address(gbehaviour, RetriesOf(module))
       IN  /\ gpc' = IF r.err = "none" THEN "returned" ELSE "raised"
           /\ graised' = r.err
           /\ gvalue' = r.value
           /\ grequests' = r.requests
    /\ UNCHANGED <<gentry, gbehaviour, gname, gresponse, gstatus, gcache, ginput, gdf,
                   gidx, gcalls, gwritten>>
    /\ UNCHANGED <<rankVars, nounVars, pipeVars, textVars, distVars, scriptVars>>

\* geocode_with_kakao(facility_name, api_key)
CallGeocodeWithKakao ==
    /\ gentry = "geocode_with_kakao" /\ gpc = "start"
    /\ LET r == geocode_with_kakao(gname, gresponse)
       IN  /\ gpc' = IF r.err = "none" THEN "returned" ELSE "raised"
           /\ graised' = r.err
           /\ gvalue' = r.value
           /\ gstatus' = r.status
           /\ grequests' = r.requests
    /\ UNCHANGED <<gentry, gbehaviour, gname, gresponse, gcache, ginput, gdf, gidx,
                   gcalls, gwritten>>
    /\ UNCHANGED <<rankVars, nounVars, pipeVars, textVars, distVars, scriptVars>>

\* load_or_geocode up to the frame it works on: the cache when it is
\* usable (returned at once), else the input rows that have an address
LG_Load ==
    /\ gentry = "load_or_geocode" /\ gpc = "start"
    /\ IF CacheUsable(gcache)
       THEN /\ gdf' = gcache.rows
            /\ gpc' = "returned"
            /\ gidx' = gidx
       ELSE /\ gdf' = [k \in DOMAIN WithAddress(ginput) |->
                          [row |-> WithAddress(ginput)[k].row,
                           latitude |-> "unset", longitude |-> "unset"]]
            /\ gpc' = "geocoding"
            /\ gidx' = 1
    /\ UNCHANGED <<gentry, gbehaviour, gname, gresponse, gvalue, gstatus, graised,
                   grequests, gcache, ginput, gcalls, gwritten>>
    /\ UNCHANGED <<rankVars, nounVars, pipeVars, textVars, distVars, scriptVars>>

\* what one geocode_address call can end with, over all the geocoder does
GeocodeResults == {geocode_address(b, MAX_RETRIES) : b \in Behaviours(MAX_RETRIES)}

\* df["ADDR"].progress_apply(geocode_address): the call for row gidx
LG_Geocode ==
    /\ gentry = "load_or_geocode" /\ gpc = "geocoding" /\ gidx <= Len(gdf)
    /\ \E r \in GeocodeResults :
          /\ gcalls' = Append(gcalls, gdf[gidx].row)
          /\ grequests' = grequests + r.requests
          /\ graised' = r.err
          /\ IF r.err = "none"
             THEN /\ gdf' = [gdf EXCEPT ![gidx].latitude = r.value.latitude,
                                        ![gidx].longitude = r.value.longitude]
                  /\ gidx' = gidx + 1
                  /\ gpc' = gpc
             ELSE /\ gpc' = "raised"
                  /\ UNCHANGED <<gdf, gidx>>
    /\ UNCHANGED <<gentry, gbehaviour, gname, gresponse, gvalue, gstatus, gcache, ginput,
                   gwritten>>
    /\ UNCHANGED <<rankVars, nounVars, pipeVars, textVars, distVars, scriptVars>>

\* df[["latitude", "longitude"]] = <the applied result>; df.to_csv(...);
\* return df.  The result of apply on an empty column is an empty Series,
\* and assigning it to two columns raises ValueError ("Columns must be
\* same length as key").
LG_AssignAndSave ==
    /\ gentry = "load_or_geocode" /\ gpc = "geocoding" /\ gidx > Len(gdf)
    /\ IF gdf = << >>
       THEN /\ gpc' = "raised"
            /\ graised' = "ValueError"
            /\ gwritten' = gwritten
       ELSE /\ gpc' = "returned"
            /\ graised' = graised
            /\ gwritten' = TRUE
    /\ UNCHANGED <<gentry, gbehaviour, gname, gresponse, gvalue, gstatus, grequests,
                   gcache, ginput, gdf, gidx, gcalls>>
    /\ UNCHANGED <<rankVars, nounVars, pipeVars, textVars, distVars, scriptVars>>

NextGeo ==
    \/ \E module \in GeoModules : CallGeocodeAddress(module)
    \/ CallGeocodeWithKakao
    \/ LG_Load
    \/ LG_Geocode
    \/ LG_AssignAndSave

SpecGeo == InitGeo /\ [][NextGeo]_vars

(***************************************************************************)
(* The legend script of the architecture map (build_map): the mode, the    *)
(* layers on the map, the chips and the keyword panel.                     *)
(***************************************************************************)
MaxPurposes == 3

\* the analysis and geocoding code does not run
AnalysisIdle == RankIdle /\ NounsIdle /\ PipeIdle /\ TextIdle /\ DistIdle /\ GeoIdle

\* null of the script
JS_NULL == "null"

\* purposes of the records, most frequent first: 교육, 주거, 종교, 상업, 업무
PURPOSES == <<"gyoyuk", "jugeo", "jonggyo", "sangeop", "eopmu">>

\* top_purposes: the purposes the legend lists
top_purposes == {PURPOSES[k] : k \in 1..MaxPurposes}

\* the keyword panel hidden
KW_HIDDEN == [display |-> "none", dist |-> << >>]

\* DIST_LAYERS: one feature group per key of DISTRICTS_WITH_ETC
DIST_LAYERS == {[group |-> "DIST", of |-> d] : d \in DOMAIN DISTRICTS_WITH_ETC}

\* PURP_LAYERS: one feature group per top purpose
PURP_LAYERS == {[group |-> "PURP", of |-> p] : p \in top_purposes}

\* the script's state as one record
LegendState ==
    [MODE |-> MODE, ACTIVE_PURPOSE |-> ACTIVE_PURPOSE, onMap |-> onMap, chips |-> chips]

\* showDistrictMode that leaves the district layers as they are
showDistrictModeNoLayers(st) ==
    [MODE |-> "district", ACTIVE_PURPOSE |-> JS_NULL,
     onMap |-> st.onMap \ PURP_LAYERS, chips |-> {}]

\* showDistrictMode()
showDistrictMode(st) ==
    [MODE |-> "district", ACTIVE_PURPOSE |-> JS_NULL,
     onMap |-> (st.onMap \ PURP_LAYERS) \cup DIST_LAYERS, chips |-> {}]

\* togglePurpose that leaves the purpose layers already on the map
togglePurposeAdding(st, purp) ==
    IF st.MODE = "purpose" /\ st.ACTIVE_PURPOSE = purp THEN showDistrictMode(st)
    ELSE [MODE |-> "purpose", ACTIVE_PURPOSE |-> purp,
          onMap |-> (st.onMap \ DIST_LAYERS) \cup {[group |-> "PURP", of |-> purp]},
          chips |-> {purp}]

\* togglePurpose(purp)
togglePurpose(st, purp) ==
    IF st.MODE = "purpose" /\ st.ACTIVE_PURPOSE = purp THEN showDistrictMode(st)
    ELSE [MODE |-> "purpose", ACTIVE_PURPOSE |-> purp,
          onMap |-> ((st.onMap \ DIST_LAYERS) \ PURP_LAYERS)
                    \cup {[group |-> "PURP", of |-> purp]},
          chips |-> {purp}]

\* the page after loading: the district groups are added with show=True,
\* the DOMContentLoaded handler takes the purpose groups off the map, no
\* chip is active and the panel is not displayed
InitLegend ==
    /\ MODE = "district" /\ ACTIVE_PURPOSE = JS_NULL
    /\ onMap = DIST_LAYERS /\ chips = {}
    /\ kwPanel = KW_HIDDEN /\ clicks = << >>
    /\ AnalysisIdle /\ SheetsIdle /\ KakaoIdle

\* a click on the legend line of a top purpose
ClickPurpose(purp) ==
    /\ LET st == togglePurpose(LegendState, purp)
       IN  /\ MODE' = st.MODE
           /\ ACTIVE_PURPOSE' = st.ACTIVE_PURPOSE
           /\ onMap' = st.onMap
           /\ chips' = st.chips
    /\ clicks' = (IF clicks = << >> THEN << >> ELSE <<clicks[Len(clicks)]>>)
                 \o <<[purp |-> purp, before |-> ACTIVE_PURPOSE]>>
    /\ UNCHANGED kwPanel
    /\ UNCHANGED <<rankVars, nounVars, pipeVars, textVars, distVars, geoVars>>
    /\ UNCHANGED <<sheetVars, kakaoVars>>

\* openKw(dist): a click on the legend line of a district
OpenKw(dist) ==
    /\ kwPanel' = [display |-> "block", dist |-> dist]
    /\ UNCHANGED <<MODE, ACTIVE_PURPOSE, onMap, chips, clicks>>
    /\ UNCHANGED <<rankVars, nounVars, pipeVars, textVars, distVars, geoVars>>
    /\ UNCHANGED <<sheetVars, kakaoVars>>

\* closeKw(): a click on the panel's close button
CloseKw ==
    /\ kwPanel.display = "block"
    /\ kwPanel' = KW_HIDDEN
    /\ UNCHANGED <<MODE, ACTIVE_PURPOSE, onMap, chips, clicks>>
    /\ UNCHANGED <<rankVars, nounVars, pipeVars, textVars, distVars, geoVars>>
    /\ UNCHANGED <<sheetVars, kakaoVars>>

NextLegend ==
    \/ \E purp \in top_purposes : ClickPurpose(purp)
    \/ \E d \in DOMAIN DISTRICTS_WITH_ETC : OpenKw(DISTRICTS_WITH_ETC[d])
    \/ CloseKw

SpecLegend == InitLegend /\ [][NextLegend]_vars

(***************************************************************************)
(* The legend script of the tourist map (add_legend_with_toggle): the tab  *)
(* bar, the two sheets and the two tab buttons.                            *)
(***************************************************************************)
MaxClicks == 5

\* background-color of a tab that is not selected
TAB_GREY == "#bdc3c7"

\* background-color of the selected district tab
TAB_BLUE == "#3498db"

\* background-color of the selected category tab
TAB_GREEN == "#27ae60"

\* the styles the script reads and writes, as one record
SheetState ==
    [sheetTabs |-> sheetTabs, districtSheet |-> districtSheet,
     categorySheet |-> categorySheet, tabDistrict |-> tabDistrict,
     tabCategory |-> tabCategory]

\* toggleLegend()
toggleLegend(st) ==
    IF st.sheetTabs = "none"
    THEN [st EXCEPT !.sheetTabs = "flex", !.districtSheet = "block"]
    ELSE [st EXCEPT !.sheetTabs = "none", !.districtSheet = "none",
                    !.categorySheet = "none"]

\* showSheet(sheet)
showSheet(st, sheet) ==
    IF sheet = "district"
    THEN [st EXCEPT !.districtSheet = "block", !.categorySheet = "none",
                    !.tabDistrict = TAB_BLUE, !.tabCategory = TAB_GREY]
    ELSE [st EXCEPT !.districtSheet = "none", !.categorySheet = "block",
                    !.tabDistrict = TAB_GREY, !.tabCategory = TAB_GREEN]

\* the inline styles of legend_html
InitSheets ==
    /\ sheetTabs = "flex" /\ districtSheet = "block" /\ categorySheet = "none"
    /\ tabDistrict = TAB_BLUE /\ tabCategory = TAB_GREY
    /\ sclicks = << >>
    /\ AnalysisIdle /\ LegendIdle /\ KakaoIdle

\* the styles after a click
SheetsBecome(st, click) ==
    /\ sheetTabs' = st.sheetTabs
    /\ districtSheet' = st.districtSheet
    /\ categorySheet' = st.categorySheet
    /\ tabDistrict' = st.tabDistrict
    /\ tabCategory' = st.tabCategory
    /\ sclicks' = Append(sclicks, click)
    /\ UNCHANGED <<rankVars, nounVars, pipeVars, textVars, distVars, geoVars>>
    /\ UNCHANGED <<legendVars, kakaoVars>>

\* a click on #toggle-btn
ClickToggle ==
    /\ Len(sclicks) < MaxClicks
    /\ SheetsBecome(toggleLegend(SheetState), "toggleLegend")

\* a click on a tab button; the buttons are inside #sheet-tabs and cannot be
\* clicked while it is not displayed
ClickTab(sheet) ==
    /\ Len(sclicks) < MaxClicks
    /\ sheetTabs # "none"
    /\ SheetsBecome(showSheet(SheetState, sheet), sheet)

NextSheets == ClickToggle \/ \E sheet \in {"district", "category"} : ClickTab(sheet)

SpecSheets == InitSheets /\ [][NextSheets]_vars

(***************************************************************************)
(* main() of the Kakao script: load, validation, step 1, step-1 save,      *)
(* step 2, report and final save over a small frame.                       *)
(***************************************************************************)
MaxKakaoRows == 2

\* values of KAKAO_API_KEY: empty, the placeholder step 1 tests for, the
\* placeholder the script ships with, a key of the service
ApiKeys == {"", "YOUR_KAKAO_REST_API_KEY_HERE", "YOUR_REST_API_KEY", "a REST API key"}

\* KAKAO_API_KEY as the script ships
KAKAO_API_KEY == "YOUR_REST_API_KEY"

\* the keys that are no key of the service
UnsetKeys == {"", "YOUR_KAKAO_REST_API_KEY_HERE", KAKAO_API_KEY}

\* the test at the head of step1_basic_geocoding
KeyRejected(api_key) == api_key = "" \/ api_key = "YOUR_KAKAO_REST_API_KEY_HERE"

\* a row of the input file, before step 1 adds its five columns
InputRow(name, english) ==
    [name |-> name, english |-> english, address |-> "None", latitude |-> "None",
     longitude |-> "None", status |-> "", method |-> "None"]

\* 공원: cleaning leaves it as it is
NAME_PLAIN == PyString(<<"gong", "won">>)

\* 공원 (본관): cleaning gives 공원
NAME_NOTED == PyString(<<"gong", "won", " ", "(", "bon", "gwan", ")">>)

\* (본관): cleaning gives ""
NAME_NOTE_ONLY == PyString(<<"(", "bon", "gwan", ")">>)

\* Park
ENGLISH == PyString(<<"Latin P", "Latin a", "Latin r", "Latin k">>)

\* the rows of the input file: 시설명 and 시설명영문, where an empty cell is
\* read as NaN and a cell of one space as " "
InputRows ==
    {InputRow(NAME_PLAIN, PyNaN), InputRow(NAME_PLAIN, ENGLISH),
     InputRow(NAME_NOTED, PyNaN), InputRow(NAME_NOTED, ENGLISH),
     InputRow(NAME_NOTE_ONLY, PyString(<<" ">>)), InputRow(PyNaN, ENGLISH)}

\* preprocessor.clean(facility_name) for the names of the input rows
cleaned == [name \in {row.name : row \in InputRows} |-> clean(name)]

\* what geocode_with_kakao reads of its first argument
NameKind(v) ==
    IF IsStr(v) THEN (IF v.s = << >> THEN "" ELSE "name") ELSE v.kind

\* what the requests of a run do: time out, are refused for the key, find
\* nothing, find a place (the other responses of KakaoResponses end in a
\* failure status like the first two); the service finds nothing and no
\* place for a key that is none of its keys
RunResponses(api_key) ==
    IF api_key \in UnsetKeys THEN {"Timeout", "status 401"}
    ELSE {"Timeout", "status 401", "200 no documents", "200 document"}

\* the results geocode_with_kakao can return for an argument
KakaoResults(v, api_key) ==
    {geocode_with_kakao(NameKind(v), r) : r \in RunResponses(api_key)}

\* a request of a step for a row, as the service sees it
Request(step, idx, query) == [ev |-> "request", step |-> step, row |-> idx, query |-> query]

\* the requests and delays of one geocode_with_kakao call
Called(result, step, idx, query) ==
    IF result.requests = 1 THEN <<Request(step, idx, query)>> ELSE << >>

\* a delay slept only after a successful call
SleepOnSuccess(result, step, idx) ==
    IF result.status = "success"
    THEN <<[ev |-> "delay", step |-> step, row |-> idx, query |-> ""]>> ELSE << >>

\* time.sleep(REQUEST_DELAY) after a call
Sleep(result, step, idx) == <<[ev |-> "delay", step |-> step, row |-> idx, query |-> ""]>>

\* the five values step 1 appends for a record
Step1Row(row, result) ==
    [row EXCEPT !.address = IF result.status = "success" THEN "address" ELSE "None",
                !.latitude = result.value.latitude,
                !.longitude = result.value.longitude,
                !.status = result.status,
                !.method = "None"]

\* every row that did not succeed is retried
NeedsRetryUnlessSuccess(row) == row.status # "success"

\* df['지오코딩상태'] == 'not_found'
NeedsRetry(row) == row.status = "not_found"

\* the cleaned name is searched whatever the cleaning gave
TriesCleanedAlways(name, cleaned_name) == TRUE

\* cleaned_name and cleaned_name != facility_name
TriesCleaned(name, cleaned_name) ==
    cleaned_name # << >> /\ PyString(cleaned_name) # name

\* '시설명영문' in df.columns and pd.notna(row.get('시설명영문'))
HasEnglish(row) == row.english.kind \notin {"NaN", "None"}

\* the method written whatever the retry returned
AfterAttemptAlways(row, result, method) == [row EXCEPT !.method = method]

\* the df.at assignments of a retry that succeeded
AfterAttempt(row, result, method) ==
    IF result.status = "success"
    THEN [row EXCEPT !.address = "address",
                     !.latitude = result.value.latitude,
                     !.longitude = result.value.longitude,
                     !.status = "success",
                     !.method = method]
    ELSE row

\* one iteration of the loop of step2_retry_failed for row idx, with the
\* results of the two calls: [row, log, retried]
step2_row(row, idx, cleaned_name, result1, result2) ==
    LET first == TriesCleaned(row.name, cleaned_name)
        log1 == IF first
                THEN Called(result1, "step 2", idx, "korean_cleaned")
                     \o Sleep(result1, "step 2", idx)
                ELSE << >>
    IN  IF first /\ result1.status = "success"
        THEN [row |-> AfterAttempt(row, result1, "korean_cleaned"), log |-> log1,
              retried |-> 1]
        ELSE IF HasEnglish(row)
        THEN [row |-> AfterAttempt(row, result2, "english"),
              log |-> log1 \o Called(result2, "step 2", idx, "english")
                          \o Sleep(result2, "step 2", idx),
              retried |-> IF result2.status = "success" THEN 1 ELSE 0]
        ELSE [row |-> row, log |-> log1, retried |-> 0]

\* print_geocoding_report formats the 시설명 of every row that did not
\* succeed with '40s', which raises ValueError for a value that is no str
ReportRaises(df) ==
    \E k \in DOMAIN df : df[k].status # "success" /\ ~IsStr(df[k].name)

\* the stages of main(), in the order of its text
STAGES == <<"load", "validation", "step 1", "step-1 save", "step 2", "report", "final save">>

\* a run of the script: the key, what is at INPUT_FILE, and (for a file
\* that holds the column 시설명) its rows
InitKakao ==
    /\ kkey \in ApiKeys
    /\ kfile \in {"missing", "unreadable", "no column", "frame"}
    /\ kdf \in (IF kfile = "frame" THEN SeqsUpTo(InputRows, MaxKakaoRows) ELSE {<< >>})
    /\ kpc = "start" /\ kidx = 0 /\ kstep1 = << >> /\ klog = << >>
    /\ kretry = 0 /\ kfiles = {} /\ kevents = << >>
    /\ AnalysisIdle /\ LegendIdle /\ SheetsIdle

\* main(): the existence test and pd.read_csv
K_Load ==
    /\ kpc = "start"
    /\ kevents' = Append(kevents, "load")
    /\ kpc' = IF kfile \in {"missing", "unreadable"} THEN "ended" ELSE "loaded"
    /\ UNCHANGED <<kkey, kfile, kdf, kidx, kstep1, klog, kretry, kfiles>>
    /\ UNCHANGED <<rankVars, nounVars, pipeVars, textVars, distVars, geoVars>>
    /\ UNCHANGED <<legendVars, sheetVars>>

\* main(): '시설명' not in df.columns
K_Validate ==
    /\ kpc = "loaded"
    /\ kevents' = Append(kevents, "validation")
    /\ kpc' = IF kfile = "no column" THEN "ended" ELSE "validated"
    /\ UNCHANGED <<kkey, kfile, kdf, kidx, kstep1, klog, kretry, kfiles>>
    /\ UNCHANGED <<rankVars, nounVars, pipeVars, textVars, distVars, geoVars>>
    /\ UNCHANGED <<legendVars, sheetVars>>

\* step1_basic_geocoding: the key test; main() returns on its ValueError
K_Step1Begin ==
    /\ kpc = "validated"
    /\ kevents' = Append(kevents, "step 1")
    /\ kpc' = IF KeyRejected(kkey) THEN "ended" ELSE "step 1"
    /\ kidx' = 1
    /\ UNCHANGED <<kkey, kfile, kdf, kstep1, klog, kretry, kfiles>>
    /\ UNCHANGED <<rankVars, nounVars, pipeVars, textVars, distVars, geoVars>>
    /\ UNCHANGED <<legendVars, sheetVars>>

\* step1_basic_geocoding: one iteration of the loop over df['시설명'] (the
\* values it appends are kept in the row they are assigned to after the loop)
K_Step1Row ==
    /\ kpc = "step 1" /\ kidx <= Len(kdf)
    /\ \E result \in KakaoResults(kdf[kidx].name, kkey) :
          /\ kdf' = [kdf EXCEPT ![kidx] = Step1Row(kdf[kidx], result)]
          /\ klog' = klog \o Called(result, "step 1", kidx, "name")
                          \o Sleep(result, "step 1", kidx)
    /\ kidx' = kidx + 1
    /\ UNCHANGED <<kkey, kfile, kpc, kstep1, kretry, kfiles, kevents>>
    /\ UNCHANGED <<rankVars, nounVars, pipeVars, textVars, distVars, geoVars>>
    /\ UNCHANGED <<legendVars, sheetVars>>

\* step1_basic_geocoding returns the frame with its five new columns
K_Step1Done ==
    /\ kpc = "step 1" /\ kidx > Len(kdf)
    /\ kstep1' = kdf
    /\ kpc' = "step-1 save"
    /\ UNCHANGED <<kkey, kfile, kdf, kidx, klog, kretry, kfiles, kevents>>
    /\ UNCHANGED <<rankVars, nounVars, pipeVars, textVars, distVars, geoVars>>
    /\ UNCHANGED <<legendVars, sheetVars>>

\* main(): df.to_csv(step1_path), which writes the file or raises; its
\* exception is logged as a warning
K_SaveStep1 ==
    /\ kpc = "step-1 save"
    /\ kevents' = Append(kevents, "step-1 save")
    /\ \E written \in BOOLEAN :
          kfiles' = IF written THEN kfiles \cup {"STEP1_OUTPUT_FILE"} ELSE kfiles
    /\ kpc' = "step 2 next"
    /\ UNCHANGED <<kkey, kfile, kdf, kidx, kstep1, klog, kretry>>
    /\ UNCHANGED <<rankVars, nounVars, pipeVars, textVars, distVars, geoVars>>
    /\ UNCHANGED <<legendVars, sheetVars>>

\* step2_retry_failed up to its loop
K_Step2Begin ==
    /\ kpc = "step 2 next"
    /\ kevents' = Append(kevents, "step 2")
    /\ kpc' = "step 2"
    /\ kidx' = 1
    /\ kretry' = 0
    /\ UNCHANGED <<kkey, kfile, kdf, kstep1, klog, kfiles>>
    /\ UNCHANGED <<rankVars, nounVars, pipeVars, textVars, distVars, geoVars>>
    /\ UNCHANGED <<legendVars, sheetVars>>

\* step2_retry_failed: the loop at row kidx, which the filter on the
\* step-1 status skips or hands to one iteration
K_Step2Row ==
    /\ kpc = "step 2" /\ kidx <= Len(kdf)
    /\ IF NeedsRetry(kstep1[kidx])
       THEN LET cleaned_name == cleaned[kdf[kidx].name]
                 english_name == Strip(PyStr(kdf[kidx].english))
            IN  \E result1 \in KakaoResults(PyString(cleaned_name), kkey),
                   result2 \in KakaoResults(PyString(english_name), kkey) :
                   LET r == step2_row(kdf[kidx], kidx, cleaned_name, result1, result2)
                   IN  /\ kdf' = [kdf EXCEPT ![kidx] = r.row]
                       /\ klog' = klog \o r.log
                       /\ kretry' = kretry + r.retried
       ELSE UNCHANGED <<kdf, klog, kretry>>
    /\ kidx' = kidx + 1
    /\ UNCHANGED <<kkey, kfile, kpc, kstep1, kfiles, kevents>>
    /\ UNCHANGED <<rankVars, nounVars, pipeVars, textVars, distVars, geoVars>>
    /\ UNCHANGED <<legendVars, sheetVars>>

\* step2_retry_failed logs retry_count and returns
K_Step2Done ==
    /\ kpc = "step 2" /\ kidx > Len(kdf)
    /\ kpc' = "report"
    /\ UNCHANGED <<kkey, kfile, kdf, kidx, kstep1, klog, kretry, kfiles, kevents>>
    /\ UNCHANGED <<rankVars, nounVars, pipeVars, textVars, distVars, geoVars>>
    /\ UNCHANGED <<legendVars, sheetVars>>

\* main(): print_geocoding_report(df, "FINAL"), outside any try
K_Report ==
    /\ kpc = "report"
    /\ kevents' = Append(kevents, "report")
    /\ kpc' = IF ReportRaises(kdf) THEN "raised" ELSE "final save"
    /\ UNCHANGED <<kkey, kfile, kdf, kidx, kstep1, klog, kretry, kfiles>>
    /\ UNCHANGED <<rankVars, nounVars, pipeVars, textVars, distVars, geoVars>>
    /\ UNCHANGED <<legendVars, sheetVars>>

\* main(): df.to_csv(output_path), which writes the file or raises
K_SaveFinal ==
    /\ kpc = "final save"
    /\ kevents' = Append(kevents, "final save")
    /\ \E written \in BOOLEAN :
          kfiles' = IF written THEN kfiles \cup {"FINAL_OUTPUT_FILE"} ELSE kfiles
    /\ kpc' = "ended"
    /\ UNCHANGED <<kkey, kfile, kdf, kidx, kstep1, klog, kretry>>
    /\ UNCHANGED <<rankVars, nounVars, pipeVars, textVars, distVars, geoVars>>
    /\ UNCHANGED <<legendVars, sheetVars>>

NextKakao ==
    \/ K_Load
    \/ K_Validate
    \/ K_Step1Begin
    \/ K_Step1Row
    \/ K_Step1Done
    \/ K_SaveStep1
    \/ K_Step2Begin
    \/ K_Step2Row
    \/ K_Step2Done
    \/ K_Report
    \/ K_SaveFinal

SpecKakao == InitKakao /\ [][NextKakao]_vars

(***************************************************************************)
(* Properties of log_odds_dirichlet (under SpecRank)                       *)
(***************************************************************************)
Vocab == Keys(one) \cup Keys(rest)

\* the tokens the filter lets through, stated from the arguments
Survivors == {w \in Vocab : one[w] >= min_count}

RankedKws == {ranked[i].kw : i \in DOMAIN ranked}

\* the score the formula gives token w for the call's arguments
ScoreOf(w) ==
    TokenScore(one[w], rest[w], SumValues(one), SumValues(rest),
               IF Cardinality(Vocab) # 0 THEN Cardinality(Vocab) ELSE 1, alpha).score

\* score > 0, i.e. exp(score) > 1
ScorePositive(x) == RatCmp(x, RatOne) > 0

AlphaPositive == RatSign(alpha) > 0

\* C1: for alpha > 0 and top_n >= 0 the call returns a list sorted by score
\* in non-increasing order, of length min(top_n, number of surviving tokens),
\* and no surviving token left out has a larger score than one returned:
\* the list is the first top_n entries of the score-sorted survivors.
C1_SortedTopN ==
    (rpc # "call" /\ AlphaPositive) =>
        /\ rpc = "returned"
        /\ Len(ranked) <= topn
        /\ Len(ranked) = (IF topn < Cardinality(Survivors)
                          THEN topn ELSE Cardinality(Survivors))
        /\ \A i, j \in DOMAIN ranked :
              i < j => RatCmp(ranked[i].score, ranked[j].score) >= 0
        /\ \A i \in DOMAIN ranked :
              /\ ranked[i].kw \in Survivors
              /\ ranked[i].score = ScoreOf(ranked[i].kw)
        /\ \A w \in Survivors \ RankedKws : \A i \in DOMAIN ranked :
              RatCmp(ranked[i].score, ScoreOf(w)) >= 0

\* C1 witness: three survivors with distinct scores, cut to top_n = 2
C1_Witness ==
    /\ rpc = "returned" /\ AlphaPositive
    /\ topn = 2 /\ Len(ranked) = 2
    /\ Cardinality(Survivors) = 3
    /\ RatCmp(ranked[1].score, ranked[2].score) > 0
    /\ \E w \in Survivors \ RankedKws : RatCmp(ranked[2].score, ScoreOf(w)) > 0

\* C2: every returned entry has count_target >= min_count and carries the
\* token's counts in target and rest; with min_count >= 1 no token of zero
\* target count is returned; every token of the vocabulary with
\* count_target >= min_count is returned unless the list is cut at top_n.
C2_CandidatesFromTarget ==
    rpc = "returned" =>
        /\ \A i \in DOMAIN ranked :
              /\ ranked[i].c1 >= min_count
              /\ ranked[i].c1 = one[ranked[i].kw]
              /\ ranked[i].c0 = rest[ranked[i].kw]
              /\ min_count >= 1 => one[ranked[i].kw] > 0
        /\ \A i, j \in DOMAIN ranked : i # j => ranked[i].kw # ranked[j].kw
        /\ Len(ranked) < topn => \A w \in Vocab : one[w] >= min_count => w \in RankedKws
        /\ Len(ranked) <= Cardinality(Survivors)

\* C2 witness: a rest-only token and a token below min_count are left out
\* while another token is returned
C2_Witness ==
    /\ rpc = "returned" /\ min_count >= 1
    /\ Len(ranked) >= 1 /\ Len(ranked) < topn
    /\ \E w \in Vocab : one[w] = 0 /\ rest[w] >= min_count /\ w \notin RankedKws
    /\ \E w \in Vocab : one[w] > 0 /\ one[w] < min_count /\ w \notin RankedKws

\* the entries of tokens that occur in target only
TargetOnly(e) == e.c0 = 0 /\ e.c1 >= 1

C4_NeverRaises == rpc # "raised" /\ raised = "none"

(***************************************************************************)
(* Properties of nouns_only (under SpecNouns)                              *)
(***************************************************************************)
\* the stopword set of the module called
StopwordsOf(variant) == IF variant = "main2" THEN STOPWORDS_main2 ELSE STOPWORDS

\* the analyzer's first analysis of the argument
FirstAnalysis == IF ndesc.analyzed = << >> THEN << >> ELSE ndesc.analyzed[1]

\* positions of the analysis whose token is a noun of length >= 2 outside
\* the stopword set
KeptPositions ==
    {i \in DOMAIN FirstAnalysis :
        /\ FirstAnalysis[i].tag \in {"NNG", "NNP"}
        /\ Len(FirstAnalysis[i].form) >= 2
        /\ FirstAnalysis[i].form \notin StopwordsOf(nvariant)}

\* C8: whenever nouns_only returns, the list is the analysis restricted to
\* the tokens tagged NNG or NNP, of length >= 2 and outside STOPWORDS, in
\* analyzer order and with duplicates: one output per kept position, in order.
C8_FilterExact ==
    npc = "returned" =>
        /\ \A k \in DOMAIN ntoks : Len(ntoks[k]) >= 2 /\ ntoks[k] \notin StopwordsOf(nvariant)
        /\ Len(ntoks) = (IF ndesc.text_empty THEN 0 ELSE Cardinality(KeptPositions))
        /\ ~ndesc.text_empty =>
              \E pos \in [DOMAIN ntoks -> KeptPositions] :
                  /\ \A a, b \in DOMAIN ntoks : a < b => pos[a] < pos[b]
                  /\ \A a \in DOMAIN ntoks :
                        /\ ntoks[a] = FirstAnalysis[pos[a]].form
                        /\ FirstAnalysis[pos[a]].tag \in {"NNG", "NNP"}

\* C8 witness: the same noun kept twice
C8_Witness ==
    /\ npc = "returned"
    /\ Len(ntoks) = 2 /\ ntoks[1] = ntoks[2]
    /\ Len(FirstAnalysis) = 2

\* C9 as stated, for both modules: an empty analysis of a non-empty text
\* gives the empty list and no exception, and an empty text gives the
\* empty list.
C9_EmptyAnalysisGivesEmpty ==
    (npc # "call" /\ (ndesc.text_empty \/ ndesc.analyzed = << >>)) =>
        npc = "returned" /\ ntoks = << >> /\ nraised = "none"

(***************************************************************************)
(* Properties of the entry points (under Spec)                             *)
(***************************************************************************)
\* the nouns the entry point's nouns_only returns for record k
RecordNouns(k) == NounsOf(entry, records[k].desc).toks

RECURSIVE SumTo(_, _)
\* F(1) + .. + F(n)
SumTo(F(_), n) == IF n = 0 THEN 0 ELSE F(n) + SumTo(F, n - 1)

\* occurrences of w among the nouns of the records labelled in labels
TokenTotalIn(labels, w) ==
    SumTo(LAMBDA k : IF records[k].district \in labels
                     THEN Occurrences(RecordNouns(k), w) ELSE 0,
          Len(records))

\* nouns returned over the records labelled in labels
NounTotalIn(labels) ==
    SumTo(LAMBDA k : IF records[k].district \in labels THEN Len(RecordNouns(k)) ELSE 0,
          Len(records))

RecordCount(label) == Cardinality({k \in DOMAIN records : records[k].district = label})

\* the counting loop has finished
Counted == pc \in {"counted", "ranked", "done"} \/ praised = "KeyError"

\* the ranking loop has finished
Ranked == pc \in {"ranked", "done"} \/ praised = "KeyError"

\* the ranked list the entry point holds for DISTRICTS[i]
RankedListOf(i) ==
    IF entry = "run_pipeline" THEN RowsOf(rows, DISTRICTS[i]) ELSE payload[i]

\* C5: the rest handed to the ranker for district d is the token-wise sum of
\* the other four district counters, so for every token count_d + count_rest
\* is the token's total over the records of the five districts; the tokens
\* of unclassified records are in no rest.
C5_RestIsSumOfOthers ==
    Ranked =>
        \A i \in DOMAIN DISTRICTS : \A w \in Forms :
            /\ rests[i][w] =
                  SumTo(LAMBDA j : IF j # i THEN counters[j][w] ELSE 0, Len(DISTRICTS))
            /\ counters[i][w] + rests[i][w] = TokenTotalIn(DistrictSet, w)

\* C5 witness: 동구 and the unclassified bucket both hold 정원; the rest of
\* 서구 holds 동구's occurrences only and the rest of 동구 holds none
C5_Witness ==
    /\ Ranked
    /\ TokenTotalIn({ETC, NONE}, <<"jeong", "won">>) > 0
    /\ counters[1][<<"jeong", "won">>] > 0
    /\ rests[2][<<"jeong", "won">>] = counters[1][<<"jeong", "won">>]
    /\ rests[1][<<"jeong", "won">>] = 0

EtcIndex == Len(DISTRICTS_WITH_ETC)

EtcForms == {w \in Forms : TokenTotalIn({ETC}, w) > 0}

\* C6: the 기타 list of the payload holds the tokens of the unclassified
\* records only, in non-increasing order of their frequency there, cut to
\* topn, each with score 0.0 and cnt its frequency in the unclassified
\* records.
C6_EtcByFrequency ==
    (entry = "build_district_keywords" /\ pc = "done") =>
        LET etc == payload[EtcIndex]
        IN  /\ \A k \in DOMAIN etc :
                  /\ etc[k].score = ZERO_SCORE
                  /\ etc[k].kw \in EtcForms
                  /\ etc[k].cnt = TokenTotalIn({ETC}, etc[k].kw)
            /\ \A a, b \in DOMAIN etc : a < b =>
                  etc[a].cnt >= etc[b].cnt /\ etc[a].kw # etc[b].kw
            /\ Len(etc) = (IF ptopn < Cardinality(EtcForms)
                           THEN ptopn ELSE Cardinality(EtcForms))
            /\ \A w \in EtcForms \ {etc[k].kw : k \in DOMAIN etc} :
                  \A k \in DOMAIN etc : etc[k].cnt >= TokenTotalIn({ETC}, w)

\* C6 witness: the bucket holds tokens of different frequency, is cut at
\* topn, and a district has a ranked keyword of its own
C6_Witness ==
    /\ entry = "build_district_keywords" /\ pc = "done"
    /\ ptopn = SmallTopN
    /\ Len(payload[EtcIndex]) = SmallTopN
    /\ Cardinality(EtcForms) > SmallTopN
    /\ payload[EtcIndex][1].cnt > 1
    /\ \E w \in EtcForms : TokenTotalIn({ETC}, w) < payload[EtcIndex][1].cnt
    /\ \E i \in DOMAIN DISTRICTS : payload[i] # << >>

\* the analyzer returns an analysis for every non-empty description
AnalyzerSegmentsAll ==
    \A k \in DOMAIN records :
        records[k].desc.text_empty \/ records[k].desc.analyzed # << >>

\* C7 as stated, for record sets whose descriptions the analyzer segments:
\* neither entry point raises, and a district without records has an empty
\* counter and an empty ranked list.
C7_EmptyDistrictNoException ==
    AnalyzerSegmentsAll =>
        /\ pc # "raised"
        /\ Counted => \A i \in DOMAIN DISTRICTS :
              RecordCount(DISTRICTS[i]) = 0 => Keys(counters[i]) = {}
        /\ Ranked => \A i \in DOMAIN DISTRICTS :
              RecordCount(DISTRICTS[i]) = 0 => RankedListOf(i) = << >>

\* C10: the values of each district's counter sum to the number of nouns
\* nouns_only returned over the records labelled with that district; the
\* same holds of the 기타 counter, and no record is counted twice.
C10_CounterConservation ==
    Counted =>
        /\ \A i \in DOMAIN DISTRICTS :
              SumValues(counters[i]) = NounTotalIn({DISTRICTS[i]})
        /\ SumTo(LAMBDA i : SumValues(counters[i]), Len(DISTRICTS)) = NounTotalIn(DistrictSet)
        /\ (entry = "build_district_keywords" /\ pc = "done") =>
              SumValues(etc_counter) = NounTotalIn({ETC})

\* C10 witness: two records of one district, six nouns, a repeated noun
C10_Witness ==
    /\ Counted
    /\ RecordCount(DISTRICTS[1]) = 2
    /\ SumValues(counters[1]) = 6
    /\ \E w \in Forms : counters[1][w] >= 3

(***************************************************************************)
(* Properties of the module-level keyword counters (under SpecKeywords)    *)
(***************************************************************************)
\* the stopwords the module of the loop knows
StopwordsAt(caller) ==
    IF caller = "main2.district_keywords" THEN STOPWORDS_main2 \cup LOCAL_STOPWORDS
    ELSE LOCAL_STOPWORDS

\* C11 as stated: every key of the per-district counter that the
\* module-level loop of main or main2 builds is a Token, a str of length
\* >= 2 that is no stopword.
C11_CounterKeysAreTokens ==
    tpc = "keywords" =>
        \A k \in DOMAIN tcounter :
            Len(tcounter[k].kw) >= 2 /\ tcounter[k].kw \notin StopwordsAt(tcaller)

(***************************************************************************)
(* Properties of the normalizers (under SpecText)                          *)
(***************************************************************************)
\* the normalizer has returned for tinput
Cleaned == tpc \in {"once", "twice"}

\* C12 as stated: the normalizer applied to its own output returns that
\* output.
C12_Idempotent == tpc = "twice" => tout2 = tout1

\* every punctuation mark of the inputs
PunctuationChars == NonWordPunct \cup {"_"}

\* C13 as stated: the output holds no punctuation mark other than "·", no
\* two adjacent whitespace characters, and no whitespace at either end.
C13_NoPunctuationNoRuns ==
    Cleaned =>
        /\ \A k \in DOMAIN tout1 : tout1[k] \notin PunctuationChars \ {MIDDOT}
        /\ \A k \in 1..(Len(tout1) - 1) :
              ~(tout1[k] \in SpaceChars /\ tout1[k + 1] \in SpaceChars)
        /\ tout1 # << >> =>
              tout1[1] \notin SpaceChars /\ tout1[Len(tout1)] \notin SpaceChars

RECURSIVE CountFrom(_, _, _)
\* s[i:].count(lit)
CountFrom(s, i, lit) ==
    IF i + Len(lit) - 1 > Len(s) THEN 0
    ELSE IF SubSeq(s, i, i + Len(lit) - 1) = lit THEN 1 + CountFrom(s, i + Len(lit), lit)
    ELSE CountFrom(s, i + 1, lit)

\* C14: for a str input the output holds the label "오월민주화" once for
\* every occurrence of "5·18" in the input (and for every label the input
\* held already), whatever digits, ordinals, years or punctuation surround
\* it, and holds no "5·18".
C14_LabelSurvives ==
    (Cleaned /\ tinput.kind = "str") =>
        /\ CountFrom(tout1, 1, LABEL_518) =
              CountFrom(tinput.s, 1, LITERAL_518) + CountFrom(tinput.s, 1, LABEL_518)
        /\ CountFrom(tout1, 1, LITERAL_518) = 0

\* C14 witness: the input "제15·18년": the literal between a digit and 년,
\* normalized by main2
C14_Witness ==
    /\ tpc = "once" /\ tcaller = "main2"
    /\ tinput = PyString(<<"je", "1">> \o LITERAL_518 \o <<"nyeon">>)
    /\ CountFrom(tout1, 1, LABEL_518) = 1

\* C15: for None, NaN and numbers the normalizer returns "" and raises
\* nothing.
C15_NonStringGivesEmpty ==
    (tpc \notin {"start", "idle", "keywords"} /\ tinput.kind # "str") =>
        Cleaned /\ traised = "none" /\ tout1 = << >>

\* C15 witness: NaN handed to clean_text_for_kw
C15_Witness ==
    /\ tpc = "once" /\ tcaller = "architect_buildings"
    /\ tinput = PyNaN /\ tout1 = << >> /\ traised = "none"

(***************************************************************************)
(* Properties of the district assignment (under SpecDistrict)              *)
(***************************************************************************)
\* C16 as stated: after the assignment of any entry point the label is one
\* of the five districts or "기타", never None.
C16_LabelIsDistrictOrEtc ==
    dpc = "assigned" => dlabel \in DistrictSet \cup {ETC}

\* the positions of str(address) where a district name starts
DistrictPositions(s) ==
    {i \in 1..Len(s) : \E d \in DistrictSet : StartsWithAt(s, i, d)}

\* C17: extract_district of architect_buildings and of main returns the
\* district name that starts at the leftmost position of the address where
\* any of the five names starts, and "기타" exactly when no name occurs.
C17_LeftmostMatch ==
    (dpc = "assigned" /\ dmodule \in {"architect_buildings", "main"}) =>
        LET s == PyStr(daddr)
            ps == DistrictPositions(s)
        IN  /\ (dlabel = ETC) <=> (ps = {})
            /\ ps # {} =>
                  /\ dlabel \in DistrictSet
                  /\ \E i \in ps : /\ \A j \in ps : i <= j
                                   /\ StartsWithAt(s, i, dlabel)

\* C17 witness: "북구 동구": 북구 is leftmost while 동구 is first in DISTRICTS
C17_Witness ==
    /\ dpc = "assigned" /\ dmodule = "main"
    /\ daddr = PyString(<<"buk", "gu", " ", "dong", "gu">>)
    /\ dlabel = <<"buk", "gu">>

(***************************************************************************)
(* Properties of the payload of build_district_keywords (under Spec)       *)
(***************************************************************************)
\* list is what the payload holds for a district whose ranker output is rk:
\* same length, same order, kw / cnt / score of the i-th tuple
WrapsRanked(list, rk, counter) ==
    /\ Len(list) = Len(rk)
    /\ \A k \in DOMAIN rk :
          /\ list[k].kw = rk[k].kw
          /\ list[k].score = rk[k].score
          /\ list[k].cnt = rk[k].c1
          /\ list[k].cnt = counter[list[k].kw]

\* C18: build_district_keywords never raises; the payload it returns has
\* the six keys of DISTRICTS_WITH_ETC, and for each of the five districts
\* its list wraps, in order, the list the ranker returned for that
\* district, with cnt the token's count in the district.
C18_PayloadWrapsRanker ==
    entry = "build_district_keywords" =>
        /\ pc # "raised"
        /\ DOMAIN payload = DOMAIN DISTRICTS_WITH_ETC
        /\ pc \in {"ranked", "done"} =>
              \A i \in DOMAIN DISTRICTS : WrapsRanked(payload[i], pranked[i], counters[i])

\* C18 witness: a returned payload where a district lists a keyword that
\* the other districts hold as well
C18_Witness ==
    /\ entry = "build_district_keywords" /\ pc = "done"
    /\ \E i \in DOMAIN DISTRICTS :
          /\ payload[i] # << >>
          /\ payload[i][1].cnt >= MIN_COUNT
          /\ rests[i][payload[i][1].kw] > 0

(***************************************************************************)
(* Properties of the geocoding wrappers and load_or_geocode (under SpecGeo) *)
(***************************************************************************)
\* a wrapper has been called
WrapperCalled == gentry \notin {"none", "load_or_geocode"} /\ gpc # "start"

\* C19: whatever the service does (a result, no result, timeouts on every
\* try, a connection error, a non-200 status, any other exception), a
\* geocoding wrapper raises nothing and returns a coordinate pair or the
\* absence value; inside load_or_geocode no geocoding call ends the batch.
C19_WrapperNeverRaises ==
    /\ WrapperCalled =>
          /\ gpc = "returned" /\ graised = "none"
          /\ gvalue \in {COORDS, ABSENT}
    /\ (gentry = "load_or_geocode" /\ gpc = "raised") => gidx > Len(gdf)

\* C19 witness: the geocoder raises an exception the RateLimiter does not
\* swallow, and geocode_address of main2 returns the absence value
C19_Witness ==
    /\ gentry = "main2.geocode_address" /\ gpc = "returned"
    /\ gbehaviour[1] = "GeocoderTimedOut" /\ gbehaviour[2] = "Exception"
    /\ gvalue = ABSENT /\ grequests = 2

\* the input positions of the rows that have an address, in order
AddressedRows == [k \in DOMAIN WithAddress(ginput) |-> WithAddress(ginput)[k].row]

\* C20 as stated: with a usable cache load_or_geocode issues no request
\* and returns the cached records unchanged; in every other case it
\* geocodes each input record that has an address exactly once, writes the
\* cache file and returns.
C20_CacheOrGeocodeOnce ==
    (gentry = "load_or_geocode" /\ gpc \in {"returned", "raised"}) =>
        IF CacheUsable(gcache)
        THEN /\ gpc = "returned" /\ grequests = 0 /\ gcalls = << >>
             /\ gdf = gcache.rows /\ ~gwritten
        ELSE /\ gpc = "returned" /\ gwritten
             /\ gcalls = AddressedRows

(***************************************************************************)
(* Determinism of log_odds_dirichlet over the iteration order of the       *)
(* vocabulary set (under SpecRuns)                                         *)
(***************************************************************************)
\* the score of every surviving token
SurvivorScores == [w \in Survivors |-> ScoreOf(w)]

\* the scores of the surviving tokens are pairwise distinct
DistinctScores ==
    LET sc == SurvivorScores
    IN  \A v, w \in Survivors : v # w => RatCmp(sc[v], sc[w]) # 0

KwsOf(list) == {list[i].kw : i \in DOMAIN list}

\* the position of token w in list
PositionOf(list, w) == CHOOSE i \in DOMAIN list : list[i].kw = w

\* C30: for alpha > 0 both runs of a call return; with pairwise
\* distinct survivor scores they return the same list; in general two
\* tokens of different score never swap between the runs, and a token
\* returned by one run and cut by the other has the score of a token that
\* took its place.
C30_OrderOnlyMattersForTies ==
    /\ rpc \notin {"raised", "raised on rerun"}
    /\ rpc = "returned twice" =>
          LET sc == SurvivorScores
          IN  /\ DistinctScores => ranked2 = ranked
              /\ \A v, w \in KwsOf(ranked2) \cap RankedKws :
                    RatCmp(sc[v], sc[w]) # 0 =>
                       ((PositionOf(ranked2, v) < PositionOf(ranked2, w))
                          <=> (PositionOf(ranked, v) < PositionOf(ranked, w)))
              /\ \A w \in RankedKws \ KwsOf(ranked2) :
                    \E v \in KwsOf(ranked2) \ RankedKws : RatCmp(sc[v], sc[w]) = 0

\* C30 witness: three survivors of pairwise distinct scores, cut at
\* top_n = 2, returned alike by two runs
C30_Witness ==
    /\ rpc = "returned twice" /\ DistinctScores
    /\ Cardinality(Survivors) = 3 /\ Cardinality(Vocab) = 3
    /\ topn = 2 /\ Len(ranked) = 2 /\ ranked2 = ranked

(***************************************************************************)
(* Equivalence of the extract_district variants (under SpecDistrict)       *)
(***************************************************************************)
\* None read as the sentinel "기타"
AsSentinel(label) == IF label = NONE THEN ETC ELSE label

\* C29 as stated: whichever module assigns the label, it is the district
\* the regex variant returns for the same address (None read as "기타").
C29_VariantsAgree ==
    dpc = "assigned" => AsSentinel(dlabel) = extract_district(daddr)


(***************************************************************************)
(* Properties of the legend script of the architecture map (SpecLegend)    *)
(***************************************************************************)
\* the purpose layers on the map
PurposeLayersOnMap == onMap \cap PURP_LAYERS

\* the state showDistrictMode leaves
InDistrictMode ==
    /\ MODE = "district" /\ ACTIVE_PURPOSE = JS_NULL
    /\ DIST_LAYERS \subseteq onMap /\ PurposeLayersOnMap = {}

\* the state a switch to purpose p leaves
InPurposeMode(p) ==
    /\ MODE = "purpose" /\ ACTIVE_PURPOSE = p
    /\ PurposeLayersOnMap = {[group |-> "PURP", of |-> p]}
    /\ onMap \cap DIST_LAYERS = {}
    /\ chips = {p}

\* C21: in district mode no purpose is active, every district layer is on
\* the map and no purpose layer is; in purpose mode a purpose is active, its
\* layer is the only purpose layer on the map, no district layer is on the
\* map, and its chip is the only active one
C21_ModeMatchesLayers ==
    /\ MODE \in {"district", "purpose"}
    /\ MODE = "district" => InDistrictMode
    /\ MODE = "purpose" =>
          /\ ACTIVE_PURPOSE \in top_purposes
          /\ InPurposeMode(ACTIVE_PURPOSE)

\* a second purpose was chosen after a first one, with the panel open
C21_Witness ==
    /\ Len(clicks) = 2 /\ clicks[1].purp # clicks[2].purp
    /\ clicks[2].before = clicks[1].purp
    /\ InPurposeMode(clicks[2].purp)
    /\ kwPanel.display = "block"

\* C22 as amended: two clicks in a row on a purpose that was not the active
\* one before them end in district mode with no active purpose, every
\* district layer shown and every purpose layer hidden; a click on another
\* purpose than the active one ends in purpose mode for the clicked purpose
C22_ToggleTwiceFromInactive ==
    /\ (/\ Len(clicks) = 2 /\ clicks[1].purp = clicks[2].purp
        /\ clicks[1].before # clicks[1].purp) => InDistrictMode
    /\ (/\ clicks # << >>
        /\ clicks[Len(clicks)].before \notin {JS_NULL, clicks[Len(clicks)].purp})
       => InPurposeMode(clicks[Len(clicks)].purp)

\* the same purpose was clicked twice from district mode
C22_Witness ==
    /\ Len(clicks) = 2 /\ clicks[1].purp = clicks[2].purp
    /\ clicks[1].before = JS_NULL
    /\ InDistrictMode /\ chips = {}

\* C22 as the specification states it: two clicks in a row on the same
\* purpose end in district mode whatever the state before them, and a click
\* on another purpose than the active one switches to the clicked purpose
C22_ToggleTwiceFromAnyState ==
    /\ (Len(clicks) = 2 /\ clicks[1].purp = clicks[2].purp) => InDistrictMode
    /\ (/\ clicks # << >>
        /\ clicks[Len(clicks)].before \notin {JS_NULL, clicks[Len(clicks)].purp})
       => InPurposeMode(clicks[Len(clicks)].purp)

(***************************************************************************)
(* Properties of the legend script of the tourist map (SpecSheets)         *)
(***************************************************************************)
\* the sheets that are displayed
DisplayedSheets ==
    (IF districtSheet = "block" THEN {"district"} ELSE {})
    \cup (IF categorySheet = "block" THEN {"category"} ELSE {})

\* the tabs whose button has a selected colour
HighlightedTabs ==
    (IF tabDistrict # TAB_GREY THEN {"district"} ELSE {})
    \cup (IF tabCategory # TAB_GREY THEN {"category"} ELSE {})

\* C28: at most one sheet is displayed, none while the legend is collapsed,
\* and while it is expanded the highlighted tab is the tab of the sheet
\* that is displayed
C28_OneSheetAndItsTab ==
    /\ Cardinality(DisplayedSheets) <= 1
    /\ sheetTabs = "none" => DisplayedSheets = {}
    /\ sheetTabs = "flex" => HighlightedTabs = DisplayedSheets

\* the first two parts of C28, which the script keeps
SheetsExclusive ==
    /\ Cardinality(DisplayedSheets) <= 1
    /\ sheetTabs = "none" => DisplayedSheets = {}
    /\ sheetTabs = "flex" => Cardinality(DisplayedSheets) = 1

(***************************************************************************)
(* Properties of the Kakao script (SpecKakao)                              *)
(***************************************************************************)
\* step1_basic_geocoding has returned its frame
Step1Returned ==
    \/ kpc \in {"step-1 save", "step 2 next", "step 2", "report", "final save", "raised"}
    \/ kpc = "ended" /\ Len(kevents) = Len(STAGES)

\* the loop of step 2 is past row k
Step2Past(k) ==
    /\ Step1Returned /\ kpc \notin {"step-1 save", "step 2 next"}
    /\ kpc = "step 2" => kidx > k

\* the rows step 1 left as not_found
NotFoundRows == {k \in DOMAIN kstep1 : kstep1[k].status = "not_found"}

\* the queries of the requests a step sent for row k, in the order sent
QueriesOf(step, k) ==
    LET sent == SelectSeq(klog, LAMBDA e : e.ev = "request" /\ e.step = step /\ e.row = k)
    IN  [i \in DOMAIN sent |-> sent[i].query]

C24_RetryOrderAndCount ==
    /\ \A k \in NotFoundRows :
          Step2Past(k) =>
             LET q == QueriesOf("step 2", k)
                 name == kstep1[k].name
                 first == cleaned[name] # << >> /\ PyString(cleaned[name]) # name
             IN  /\ q \in {<< >>, <<"korean_cleaned">>, <<"english">>,
                           <<"korean_cleaned", "english">>}
                 /\ (q # << >> /\ q[1] = "korean_cleaned") <=> first
                 /\ q # << >> /\ q[Len(q)] = "english" =>
                       HasEnglish(kstep1[k]) /\ kdf[k].method # "korean_cleaned"
                 /\ (/\ kstep1[k].english = ENGLISH
                     /\ kdf[k].method # "korean_cleaned") =>
                       q # << >> /\ q[Len(q)] = "english"
                 /\ kdf[k].method \in {"korean_cleaned", "english", "None"}
                 /\ kdf[k].method # "None" =>
                       kdf[k].status = "success" /\ q # << >> /\ q[Len(q)] = kdf[k].method
                 /\ kdf[k].method = "None" => kdf[k].status = "not_found"
    /\ Step1Returned =>
          kretry = Cardinality({k \in NotFoundRows : kdf[k].status = "success"})

\* a run in which the cleaned name of one row was found, and the English
\* name of another after its cleaned name was not
C24_Witness ==
    /\ kpc = "ended" /\ NotFoundRows = {1, 2}
    /\ kdf[1].method = "korean_cleaned" /\ QueriesOf("step 2", 1) = <<"korean_cleaned">>
    /\ kdf[2].method = "english" /\ QueriesOf("step 2", 2) = <<"korean_cleaned", "english">>
    /\ kretry = 2

Step1Requests == SelectSeq(klog, LAMBDA e : e.ev = "request" /\ e.step = "step 1")

\* C26: step 1 sends at most one request per record, in record order, and
\* every request of either step is followed by a delay before the next
C26_OneRequestThenDelay ==
    /\ \A i, j \in DOMAIN Step1Requests :
          i < j => Step1Requests[i].row < Step1Requests[j].row
    /\ \A i \in DOMAIN klog :
          klog[i].ev = "request" => i < Len(klog) /\ klog[i + 1].ev = "delay"

\* a run with five requests: both rows in step 1, the cleaned name of the
\* first in vain, its English name, and the cleaned name of the second
C26_Witness ==
    /\ kpc = "ended"
    /\ Len(SelectSeq(klog, LAMBDA e : e.ev = "request")) = 5
    /\ Len(Step1Requests) = 2
    /\ QueriesOf("step 2", 1) = <<"korean_cleaned", "english">>
    /\ kdf[1].status = "not_found" /\ kdf[2].status = "success"

\* the stages so far are the first stages of main()
StagesInOrder ==
    /\ Len(kevents) <= Len(STAGES)
    /\ \A i \in DOMAIN kevents : kevents[i] = STAGES[i]

\* C27: the stages run in the order load, validation, step 1, step-1 save,
\* step 2, report, final save; a run that fails in load, validation or
\* step 1 writes no file, and a key that is not set is turned down before
\* any request is sent; a run that passed step 1 goes on to the report and
\* the final save whatever the step-1 save and step 2 did
C27_StagesAndKeyCheck ==
    /\ StagesInOrder
    /\ kkey \in UnsetKeys => \A i \in DOMAIN klog : klog[i].ev # "request"
    /\ (kpc = "ended" /\ Len(kevents) <= 3) => kfiles = {}
    /\ (kpc = "ended" /\ Len(kevents) > 3) => Len(kevents) = Len(STAGES)
    /\ kpc = "raised" => Len(kevents) = Len(STAGES) - 1

\* C27 without the key: what the code keeps for the keys it turns down
StagesAndRejectedKeys ==
    /\ StagesInOrder
    /\ KeyRejected(kkey) => klog = << >> /\ kfiles = {}
    /\ (kpc = "ended" /\ Len(kevents) <= 3) => kfiles = {}
    /\ (kpc = "ended" /\ Len(kevents) > 3) => Len(kevents) = Len(STAGES)
    /\ kpc = "raised" => Len(kevents) = Len(STAGES) - 1 /\ ReportRaises(kdf)

====
